---- MODULE Spec2Model ----
(***************************************************************************)
(* Caching subsystem of the 3D Tech Store backend.                         *)
(*                                                                         *)
(*   backend/simple_cache.py  SimpleCacheManager: in-process store with    *)
(*                            per-key expiry, cache_response, invalidation *)
(*   backend/cache.py         CacheManager: the same capability set over   *)
(*                            an external key-value service                *)
(*   backend/server.py        the request handlers that use the cache      *)
(*                                                                         *)
(* Strings the code inspects character by character (cache keys, glob      *)
(* patterns) are sequences of one-character strings.  Python values are    *)
(* records tagged with their type; JSON texts are the strings dumps produces  *)
(* for them.  time.time() is an integer clock, now.                        *)
(***************************************************************************)
EXTENDS Integers, Sequences, FiniteSets, TLC

VARIABLES
    variant,          \* which backend class the behaviour drives: "simple" | "redis"
    now,              \* time.time()
    cache,            \* SimpleCacheManager.cache: key -> entry
    connected,        \* SimpleCacheManager.connected
    redis,            \* CacheManager.redis: "None" | "open" | "closed"
    redis_connected,  \* CacheManager.connected
    service,          \* the external key-value service: key -> [val, exp]
    serviceUp,        \* whether the service answers
    last,             \* the last completed backend call and what it returned
    hist,             \* history: per key, the last mutation call that named it
    memo,             \* cache_response wrapper calls in progress
    memoLog,          \* history: per argument set, the last completed wrapper call
    OPTIMIZATIONS_AVAILABLE, \* server.py: whether the cache modules imported
    db,               \* db.products: the set of product ids stored
    req,              \* the request handlers in progress
    life,             \* history: per product id, what the write handlers did with it
    derive,           \* _generate_key driven alone: its inputs and the keys returned
    pair,             \* both backends driven by one call sequence: what each returned
    loop,             \* SimpleCacheManager.get run statement by statement on the event loop
    flight,           \* the remote backend's request awaiting the service's reply
    answers,          \* the service replies to requests (with a result or an error)
    carts,            \* db.carts: the cart documents of the session, in natural order
    users,            \* db.users: the emails of the user documents, in natural order
    task,             \* the add_to_cart and create_user requests: where each is suspended
    added             \* history: per (product_id, selected_color), the quantity of the
                      \* additions that returned "Item added to cart successfully"

backendVars == <<variant, now, cache, connected, redis, redis_connected,
                 service, serviceUp, last, hist>>
memoVars    == <<memo, memoLog>>
serverVars  == <<OPTIMIZATIONS_AVAILABLE, db, req, life>>
shopVars    == <<carts, users, task, added>>
stepVars    == <<loop, flight, answers, shopVars>>
auxVars     == <<derive, pair, stepVars>>
vars        == <<backendVars, memoVars, serverVars, auxVars>>
\* Everything but the carts, the users and their requests.
cacheVars   == <<backendVars, memoVars, serverVars, derive, pair, loop, flight, answers>>

-----------------------------------------------------------------------------
(* Bounds *)

\* The clock runs from 0 to MaxTime.
MaxTime == 2

-----------------------------------------------------------------------------
(* Keys, patterns and values *)

kProductsA == <<"p","r","o","d","u","c","t","s",":","a">>
kProductA  == <<"p","r","o","d","u","c","t",":","a">>

pAll       == <<"*">>
pProducts  == <<"p","r","o","d","u","c","t","s",":","*">>
pProduct   == <<"p","r","o","d","u","c","t",":","*">>
pBare      == <<"p","r","o","d","u","c","t",":">>

\* The keys and patterns the callers pass to the backend.
Keys     == {kProductsA, kProductA}
Patterns == {pAll, pProducts, pProduct, kProductA, pBare}

\* Python values, tagged by type
PyNone  == [t |-> "None"]
PyTrue  == [t |-> "bool", b |-> TRUE]
PyFalse == [t |-> "bool", b |-> FALSE]
PyStr(x)  == [t |-> "str", s |-> x]
\* a list of product dicts: items maps each product id to its fields
PyList(items) == [t |-> "list", items |-> items]

\* a dict that holds itself: json.dumps raises ValueError (circular reference)
PyCyclic == [t |-> "cyclic"]

\* bool(value)
Truthy(v) == v \notin {PyNone, PyFalse, PyStr(""), PyList(<<>>)}

Values == {PyStr("v1"), PyStr("v2")}
\* expire is an int the caller chooses: no method rejects zero or a negative one
TTLs   == {-1, 0, 1, 2}

\* dict without the keys of ks (del self.cache[key])
Drop(c, ks) == [x \in (DOMAIN c) \ ks |-> c[x]]

\* dict with c[k] = e (self.cache[key] = ...)
Put(c, k, e) == [x \in (DOMAIN c) \cup {k} |-> IF x = k THEN e ELSE c[x]]

\* str.startswith
StartsWith(s, p) == Len(p) <= Len(s) /\ SubSeq(s, 1, Len(p)) = p

\* pattern.replace("*", "")
RemoveStars(p) == SelectSeq(p, LAMBDA ch : ch # "*")

HasStar(p) == \E i \in 1..Len(p) : p[i] = "*"

-----------------------------------------------------------------------------
(* SimpleCacheManager: the in-process backend (simple_cache.py) *)

\* One stored entry (simple_cache.py, set).
Entry(v, t, expire) == [data |-> v, expires_at |-> t + expire, created_at |-> t]

\* get: the value returned and the store afterwards.
SimpleCacheManager_get(c, conn, t, k) ==
    IF ~conn THEN [ret |-> PyNone, cache |-> c]
    ELSE IF k \in DOMAIN c
         THEN IF t > c[k].expires_at
              THEN [ret |-> PyNone, cache |-> Drop(c, {k})]
              ELSE [ret |-> c[k].data, cache |-> c]
         ELSE [ret |-> PyNone, cache |-> c]

\* set that keeps an entry already stored (dict.setdefault instead of assignment)
Mut_set_keeps_existing(c, conn, t, k, v, expire) ==
    IF ~conn THEN [ret |-> PyFalse, cache |-> c]
    ELSE [ret |-> PyTrue,
          cache |-> IF k \in DOMAIN c THEN c ELSE Put(c, k, Entry(v, t, expire))]

\* set that stores without testing self.connected
Mut_set_when_disconnected(c, conn, t, k, v, expire) ==
    [ret |-> PyTrue, cache |-> Put(c, k, Entry(v, t, expire))]

SimpleCacheManager_set(c, conn, t, k, v, expire) ==
    IF ~conn THEN [ret |-> PyFalse, cache |-> c]
    ELSE [ret |-> PyTrue, cache |-> Put(c, k, Entry(v, t, expire))]

\* delete that reports failure for a key the store does not hold
Mut_delete_fails_when_absent(c, conn, k) ==
    IF ~conn \/ k \notin DOMAIN c THEN [ret |-> PyFalse, cache |-> c]
    ELSE [ret |-> PyTrue, cache |-> Drop(c, {k})]

SimpleCacheManager_delete(c, conn, k) ==
    IF ~conn THEN [ret |-> PyFalse, cache |-> c]
    ELSE [ret |-> PyTrue, cache |-> IF k \in DOMAIN c THEN Drop(c, {k}) ELSE c]

\* clear_pattern that matches on the namespace before the first ':' only
Mut_clear_by_namespace(c, conn, pattern) ==
    IF ~conn THEN [ret |-> PyFalse, cache |-> c]
    ELSE IF pattern = pAll
         THEN [ret |-> PyTrue, cache |-> Drop(c, DOMAIN c)]
         ELSE LET stripped == RemoveStars(pattern)
                  cut == IF \E i \in 1..Len(stripped) : stripped[i] = ":"
                         THEN CHOOSE i \in 1..Len(stripped) :
                                  /\ stripped[i] = ":"
                                  /\ \A j \in 1..(i - 1) : stripped[j] # ":"
                         ELSE Len(stripped) + 1
                  pattern_prefix == SubSeq(stripped, 1, cut - 1)
              IN  [ret |-> PyTrue,
                   cache |-> Drop(c, {k \in DOMAIN c : StartsWith(k, pattern_prefix)})]

\* clear_pattern without the "*" fast path and without stripping the wildcard
Mut_clear_literal_prefix(c, conn, pattern) ==
    IF ~conn THEN [ret |-> PyFalse, cache |-> c]
    ELSE [ret |-> PyTrue, cache |-> Drop(c, {k \in DOMAIN c : StartsWith(k, pattern)})]

SimpleCacheManager_clear_pattern(c, conn, pattern) ==
    IF ~conn THEN [ret |-> PyFalse, cache |-> c]
    ELSE IF pattern = pAll
         THEN [ret |-> PyTrue, cache |-> Drop(c, DOMAIN c)]
         ELSE LET pattern_prefix == RemoveStars(pattern)
                  keys_to_delete == {k \in DOMAIN c : StartsWith(k, pattern_prefix)}
              IN  [ret |-> PyTrue, cache |-> Drop(c, keys_to_delete)]

\* _cleanup_expired: the store without its expired entries.
SimpleCacheManager_cleanup_expired(c, t) ==
    Drop(c, {k \in DOMAIN c : t > c[k].expires_at})

\* get_cache_stats of simple_cache.py: the snapshot and the store afterwards.
Simple_get_cache_stats(c, conn, t) ==
    IF ~conn THEN [ret |-> [status |-> "disconnected", keys |-> 0], cache |-> c]
    ELSE LET swept == SimpleCacheManager_cleanup_expired(c, t)
         IN  [ret |-> [status |-> "connected", keys |-> Cardinality(DOMAIN swept)],
              cache |-> swept]

-----------------------------------------------------------------------------
(* History of the mutation calls, per key *)

\* The history records the calls made on the in-process backend, whatever they
\* did to the store.  kind:
\*   "none"         never named
\*   "set"          set(k, val, ttl) was the last call naming k, at time exp - ttl;
\*                  over: it followed a set of k with another value
\*   "cleared_all"  k was stored when clear_pattern("*") ran
\*   "swept"        k was stored when a clear_pattern with another pattern ran
\*   "removed"      named by connect, disconnect or delete, or not stored when a
\*                  clear_pattern with another pattern ran
NoHist     == [kind |-> "none", val |-> PyNone, exp |-> 0, over |-> FALSE]
Removed    == [kind |-> "removed", val |-> PyNone, exp |-> 0, over |-> FALSE]
ClearedAll == [kind |-> "cleared_all", val |-> PyNone, exp |-> 0, over |-> FALSE]
Swept      == [kind |-> "swept", val |-> PyNone, exp |-> 0, over |-> FALSE]
WasSet(k, v, e) ==
    [kind |-> "set", val |-> v, exp |-> e,
     over |-> hist[k].kind = "set" /\ hist[k].val # v]

\* hist after the calls of one step named the keys ks with record h.
Note(ks, h) == [k \in Keys |-> IF k \in ks THEN h ELSE hist[k]]

\* The argument sets the memoized operation is called with.
Args == {"a1"}

\* History of the wrapper calls, per argument set: the value returned by the last
\* call that ran alone on a usable backend, and the end of its ttl window; NoValue
\* when there is none or the window was ended by an invalidation, a connect, a
\* disconnect or a failure of the service.
NoValue == [t |-> "-"]
NoLog == [ret |-> NoValue, exp |-> 0]
EndWindows == memoLog' = [a \in Args |-> NoLog]

\* A completed call: what it was, what it returned (for stats: status and key
\* count n), whether it called the key-value service, and the exception that
\* left it ("-" when it returned).
Call(op, key, ret, net) ==
    [op |-> op, key |-> key, ret |-> ret, n |-> 0, net |-> net, exc |-> "-"]

-----------------------------------------------------------------------------
(* The calls on the in-process backend *)

\* connect that sets the flag and keeps self.cache
Mut_connect_keeps_store ==
    /\ variant = "simple"
    /\ cache' = cache
    /\ connected' = TRUE
    /\ last' = Call("connect", <<>>, PyNone, FALSE)
    /\ hist' = Note(Keys, Removed)
    /\ EndWindows
    /\ UNCHANGED <<auxVars, memo, serverVars, variant, now, redis, redis_connected, service, serviceUp>>

simple_connect ==
    /\ variant = "simple"
    /\ cache' = <<>>
    /\ connected' = TRUE
    /\ last' = Call("connect", <<>>, PyNone, FALSE)
    /\ hist' = Note(Keys, Removed)
    /\ EndWindows
    /\ UNCHANGED <<auxVars, memo, serverVars, variant, now, redis, redis_connected, service, serviceUp>>

\* disconnect that clears the flag and keeps self.cache
Mut_disconnect_keeps_store ==
    /\ variant = "simple"
    /\ cache' = cache
    /\ connected' = FALSE
    /\ last' = Call("disconnect", <<>>, PyNone, FALSE)
    /\ hist' = Note(Keys, Removed)
    /\ EndWindows
    /\ UNCHANGED <<auxVars, memo, serverVars, variant, now, redis, redis_connected, service, serviceUp>>

simple_disconnect ==
    /\ variant = "simple"
    /\ cache' = <<>>
    /\ connected' = FALSE
    /\ last' = Call("disconnect", <<>>, PyNone, FALSE)
    /\ hist' = Note(Keys, Removed)
    /\ EndWindows
    /\ UNCHANGED <<auxVars, memo, serverVars, variant, now, redis, redis_connected, service, serviceUp>>

simple_get(k) ==
    /\ variant = "simple"
    /\ LET r == SimpleCacheManager_get(cache, connected, now, k)
       IN  /\ cache' = r.cache
           /\ last' = Call("get", k, r.ret, FALSE)
    /\ UNCHANGED <<auxVars, memoVars, serverVars, variant, now, connected, redis, redis_connected, service,
                   serviceUp, hist>>

\* set that marks the backend connected again
Mut_set_reconnects(k, v, expire) ==
    /\ variant = "simple"
    /\ cache' = Put(cache, k, Entry(v, now, expire))
    /\ connected' = TRUE
    /\ last' = Call("set", k, PyTrue, FALSE)
    /\ hist' = Note({k}, WasSet(k, v, now + expire))
    /\ UNCHANGED <<auxVars, memoVars, serverVars, variant, now, redis, redis_connected, service,
                   serviceUp>>

simple_set(k, v, expire) ==
    /\ variant = "simple"
    /\ LET r == SimpleCacheManager_set(cache, connected, now, k, v, expire)
       IN  /\ cache' = r.cache
           /\ last' = Call("set", k, r.ret, FALSE)
    /\ hist' = IF connected
               THEN Note({k}, WasSet(k, v, now + expire))
               ELSE hist
    /\ UNCHANGED <<auxVars, memoVars, serverVars, variant, now, connected, redis, redis_connected, service,
                   serviceUp>>

simple_delete(k) ==
    /\ variant = "simple"
    /\ LET r == SimpleCacheManager_delete(cache, connected, k)
       IN  /\ cache' = r.cache
           /\ last' = Call("delete", k, r.ret, FALSE)
    /\ hist' = IF connected
               THEN Note({k}, Removed)
               ELSE hist
    /\ UNCHANGED <<auxVars, memoVars, serverVars, variant, now, connected, redis, redis_connected, service,
                   serviceUp>>

simple_clear_pattern(pattern) ==
    /\ variant = "simple"
    /\ LET r == SimpleCacheManager_clear_pattern(cache, connected, pattern)
       IN  /\ cache' = r.cache
           /\ last' = Call("clear_pattern", pattern, r.ret, FALSE)
    /\ hist' = IF ~connected THEN hist
               ELSE IF pattern = pAll
               THEN Note(DOMAIN cache, ClearedAll)
               ELSE [k \in Keys |-> IF k \in DOMAIN cache THEN Swept ELSE Removed]
    /\ UNCHANGED <<auxVars, memoVars, serverVars, variant, now, connected, redis, redis_connected, service,
                   serviceUp>>

simple_get_cache_stats ==
    /\ variant = "simple"
    /\ LET r == Simple_get_cache_stats(cache, connected, now)
       IN  /\ cache' = r.cache
           /\ last' = [Call("stats", <<>>, PyStr(r.ret.status), FALSE) EXCEPT !.n = r.ret.keys]
    /\ UNCHANGED <<auxVars, memoVars, serverVars, variant, now, connected, redis, redis_connected, service,
                   serviceUp, hist>>


-----------------------------------------------------------------------------
(* CacheManager: the remote backend (cache.py) over the key-value service *)

\* json.dumps(value, default=str)
Dumps(v) ==
    CASE v = PyNone      -> "null"
      [] v = PyTrue      -> "true"
      [] v = PyFalse     -> "false"
      [] v = PyStr("v1") -> "\"v1\""
      [] v = PyStr("v2") -> "\"v2\""

\* json.dumps(value, default=str) raises instead of returning a text
DumpsRaises(v) == v = PyCyclic

\* json.loads(text): ok is FALSE where it raises JSONDecodeError
Loads(text) ==
    CASE text = "null"     -> [ok |-> TRUE, val |-> PyNone]
      [] text = "true"     -> [ok |-> TRUE, val |-> PyTrue]
      [] text = "false"    -> [ok |-> TRUE, val |-> PyFalse]
      [] text = "\"v1\""   -> [ok |-> TRUE, val |-> PyStr("v1")]
      [] text = "\"v2\""   -> [ok |-> TRUE, val |-> PyStr("v2")]
      [] OTHER             -> [ok |-> FALSE, val |-> PyNone]

\* The service's glob match of KEYS pattern ('*' matches any run of characters).
RECURSIVE GlobMatch(_, _)
GlobMatch(p, s) ==
    IF p = <<>> THEN s = <<>>
    ELSE IF Head(p) = "*"
         THEN GlobMatch(Tail(p), s) \/ (s # <<>> /\ GlobMatch(p, Tail(s)))
         ELSE s # <<>> /\ Head(s) = Head(p) /\ GlobMatch(Tail(p), Tail(s))

\* The keys the service still holds at time t (it expires a key at exp).
Live(svc, t) == {k \in DOMAIN svc : t < svc[k].exp}

\* What each call returns, the service afterwards, and whether the service was called.

\* get that returns the stored text when json.loads raises
Mut_get_returns_raw(svc, conn, h, up, t, k) ==
    IF ~conn \/ h = "None" THEN [ret |-> PyNone, service |-> svc, net |-> FALSE]
    ELSE IF ~up THEN [ret |-> PyNone, service |-> svc, net |-> TRUE]
    ELSE IF k \in Live(svc, t) /\ svc[k].val # ""
         THEN LET d == Loads(svc[k].val)
              IN  [ret |-> IF d.ok THEN d.val ELSE PyStr(svc[k].val), service |-> svc,
                   net |-> TRUE]
         ELSE [ret |-> PyNone, service |-> svc, net |-> TRUE]

CacheManager_get(svc, conn, h, up, t, k) ==
    IF ~conn \/ h = "None" THEN [ret |-> PyNone, service |-> svc, net |-> FALSE]
    ELSE IF ~up THEN [ret |-> PyNone, service |-> svc, net |-> TRUE]
    ELSE IF k \in Live(svc, t) /\ svc[k].val # ""
         THEN LET d == Loads(svc[k].val)
              IN  [ret |-> IF d.ok THEN d.val ELSE PyNone, service |-> svc, net |-> TRUE]
         ELSE [ret |-> PyNone, service |-> svc, net |-> TRUE]

\* set that checks the handle but not the connected flag
Mut_set_ignores_connected(svc, conn, h, up, t, k, v, expire) ==
    IF h = "None" THEN [ret |-> PyFalse, service |-> svc, net |-> FALSE]
    ELSE IF ~up \/ expire <= 0 THEN [ret |-> PyFalse, service |-> svc, net |-> TRUE]
    ELSE [ret |-> PyTrue, service |-> Put(svc, k, [val |-> Dumps(v), exp |-> t + expire]),
          net |-> TRUE]

CacheManager_set(svc, conn, h, up, t, k, v, expire) ==
    IF ~conn \/ h = "None" THEN [ret |-> PyFalse, service |-> svc, net |-> FALSE]
    ELSE IF DumpsRaises(v) THEN [ret |-> PyFalse, service |-> svc, net |-> FALSE]
    ELSE IF ~up \/ expire <= 0 THEN [ret |-> PyFalse, service |-> svc, net |-> TRUE]
    ELSE [ret |-> PyTrue, service |-> Put(svc, k, [val |-> Dumps(v), exp |-> t + expire]),
          net |-> TRUE]

CacheManager_delete(svc, conn, h, up, k) ==
    IF ~conn \/ h = "None" THEN [ret |-> PyFalse, service |-> svc, net |-> FALSE]
    ELSE IF ~up THEN [ret |-> PyFalse, service |-> svc, net |-> TRUE]
    ELSE [ret |-> PyTrue, service |-> Drop(svc, {k}), net |-> TRUE]

CacheManager_clear_pattern(svc, conn, h, up, t, pattern) ==
    IF ~conn \/ h = "None" THEN [ret |-> PyFalse, service |-> svc, net |-> FALSE]
    ELSE IF ~up THEN [ret |-> PyFalse, service |-> svc, net |-> TRUE]
    ELSE LET keys == {k \in Live(svc, t) : GlobMatch(pattern, k)}
         IN  [ret |-> PyTrue, service |-> Drop(svc, keys), net |-> TRUE]

\* get_cache_stats of cache.py: the snapshot (keys = DBSIZE), and whether the
\* service was called.
Redis_get_cache_stats(svc, conn, h, up, t) ==
    IF ~conn \/ h = "None"
    THEN [ret |-> [status |-> "disconnected", keys |-> 0], net |-> FALSE]
    ELSE IF ~up THEN [ret |-> [status |-> "error", keys |-> 0], net |-> TRUE]
    ELSE [ret |-> [status |-> "connected", keys |-> Cardinality(Live(svc, t))],
          net |-> TRUE]

\* The try block of connect: aioredis.from_url raises ValueError on a REDIS_URL
\* it cannot parse (url_ok false) before self.redis is assigned; ping raises
\* ConnectionError when the service does not answer.
CacheManager_connect_try(h, conn, url_ok, up) ==
    IF ~url_ok THEN [redis |-> h, connected |-> conn, exc |-> "ValueError", net |-> FALSE]
    ELSE IF ~up THEN [redis |-> "open", connected |-> conn, exc |-> "ConnectionError",
                      net |-> TRUE]
    ELSE [redis |-> "open", connected |-> TRUE, exc |-> "-", net |-> TRUE]

\* connect whose except block does not reset self.redis
Mut_connect_keeps_handle(h, conn, url_ok, up) ==
    LET t == CacheManager_connect_try(h, conn, url_ok, up)
    IN  IF t.exc # "-"
        THEN [redis |-> t.redis, connected |-> FALSE, exc |-> "-", net |-> t.net]
        ELSE t

\* connect: the try block, and except Exception around it
CacheManager_connect(h, conn, url_ok, up) ==
    LET t == CacheManager_connect_try(h, conn, url_ok, up)
    IN  IF t.exc # "-"
        THEN [redis |-> "None", connected |-> FALSE, exc |-> "-", net |-> t.net]
        ELSE t

\* disconnect: close_ok is whether self.redis.close() returns; when it raises
\* (TimeoutError from the pool's disconnect) the exception leaves disconnect
\* before self.connected = False.
CacheManager_disconnect(h, conn, close_ok) ==
    IF h # "None"
    THEN IF close_ok
         THEN [redis |-> "closed", connected |-> FALSE, exc |-> "-", net |-> TRUE]
         ELSE [redis |-> h, connected |-> conn, exc |-> "TimeoutError", net |-> TRUE]
    ELSE [redis |-> h, connected |-> conn, exc |-> "-", net |-> FALSE]

redis_connect(url_ok) ==
    /\ variant = "redis"
    /\ LET r == CacheManager_connect(redis, redis_connected, url_ok, serviceUp)
       IN  /\ redis' = r.redis
           /\ redis_connected' = r.connected
           /\ last' = [Call("connect", <<>>, PyNone, r.net) EXCEPT !.exc = r.exc]
    /\ EndWindows
    /\ UNCHANGED <<auxVars, memo, serverVars, variant, now, cache, connected, service, serviceUp, hist>>

redis_disconnect(close_ok) ==
    /\ variant = "redis"
    /\ LET r == CacheManager_disconnect(redis, redis_connected, close_ok)
       IN  /\ redis' = r.redis
           /\ redis_connected' = r.connected
           /\ last' = [Call("disconnect", <<>>, PyNone, r.net) EXCEPT !.exc = r.exc]
    /\ EndWindows
    /\ UNCHANGED <<auxVars, memo, serverVars, variant, now, cache, connected, service, serviceUp, hist>>

\* get whose except block also marks the backend disconnected
Mut_get_disables_on_error(k) ==
    /\ variant = "redis"
    /\ LET r == CacheManager_get(service, redis_connected, redis, serviceUp, now, k)
       IN  /\ service' = r.service
           /\ last' = Call("get", k, r.ret, r.net)
           /\ redis_connected' = IF r.net /\ ~serviceUp THEN FALSE ELSE redis_connected
    /\ UNCHANGED <<auxVars, memoVars, serverVars, variant, now, cache, connected, redis,
                   serviceUp, hist>>

redis_get(k) ==
    /\ variant = "redis"
    /\ LET r == CacheManager_get(service, redis_connected, redis, serviceUp, now, k)
       IN  /\ service' = r.service
           /\ last' = Call("get", k, r.ret, r.net)
    /\ UNCHANGED <<auxVars, memoVars, serverVars, variant, now, cache, connected, redis, redis_connected,
                   serviceUp, hist>>

redis_set(k, v, expire) ==
    /\ variant = "redis"
    /\ LET r == CacheManager_set(service, redis_connected, redis, serviceUp, now,
                                 k, v, expire)
       IN  /\ service' = r.service
           /\ last' = Call("set", k, r.ret, r.net)
    /\ UNCHANGED <<auxVars, memoVars, serverVars, variant, now, cache, connected, redis, redis_connected,
                   serviceUp, hist>>

redis_delete(k) ==
    /\ variant = "redis"
    /\ LET r == CacheManager_delete(service, redis_connected, redis, serviceUp, k)
       IN  /\ service' = r.service
           /\ last' = Call("delete", k, r.ret, r.net)
    /\ UNCHANGED <<auxVars, memoVars, serverVars, variant, now, cache, connected, redis, redis_connected,
                   serviceUp, hist>>

redis_clear_pattern(pattern) ==
    /\ variant = "redis"
    /\ LET r == CacheManager_clear_pattern(service, redis_connected, redis,
                                           serviceUp, now, pattern)
       IN  /\ service' = r.service
           /\ last' = Call("clear_pattern", pattern, r.ret, r.net)
    /\ UNCHANGED <<auxVars, memoVars, serverVars, variant, now, cache, connected, redis, redis_connected,
                   serviceUp, hist>>

redis_get_cache_stats ==
    /\ variant = "redis"
    /\ LET r == Redis_get_cache_stats(service, redis_connected, redis, serviceUp, now)
       IN  last' = [Call("stats", <<>>, PyStr(r.ret.status), r.net) EXCEPT !.n = r.ret.keys]
    /\ UNCHANGED <<auxVars, memoVars, serverVars, variant, now, cache, connected, redis, redis_connected,
                   service, serviceUp, hist>>

\* The service stops answering, or answers again.
ServiceFlip ==
    /\ variant = "redis"
    /\ serviceUp' = ~serviceUp
    /\ EndWindows
    /\ UNCHANGED <<auxVars, memo, serverVars, variant, now, cache, connected, redis, redis_connected, service,
                   last, hist>>

-----------------------------------------------------------------------------
(* The clock *)

\* One second passes; the service drops the keys that expire.
Tick ==
    /\ now < MaxTime
    /\ now' = now + 1
    /\ service' = Drop(service, (DOMAIN service) \ Live(service, now + 1))
    /\ UNCHANGED <<auxVars, memoVars, serverVars, variant, cache, connected, redis, redis_connected, serviceUp,
                   last, hist>>

-----------------------------------------------------------------------------
(* The backends driven directly *)

BackendInit ==
    /\ variant \in {"simple", "redis"}
    /\ now = 0
    /\ cache = <<>>
    /\ connected = TRUE
    /\ redis = "None"
    /\ redis_connected = FALSE
    /\ service = <<>>
    /\ serviceUp \in BOOLEAN
    /\ last = Call("init", <<>>, PyNone, FALSE)
    /\ hist = [k \in Keys |-> NoHist]

BackendNext ==
    \/ simple_connect
    \/ simple_disconnect
    \/ \E k \in Keys : simple_get(k)
    \/ \E k \in Keys, v \in Values, e \in TTLs : simple_set(k, v, e)
    \/ \E k \in Keys : simple_delete(k)
    \/ \E p \in Patterns : simple_clear_pattern(p)
    \/ simple_get_cache_stats
    \/ \E url_ok \in BOOLEAN : redis_connect(url_ok)
    \/ \E close_ok \in BOOLEAN : redis_disconnect(close_ok)
    \/ \E k \in Keys : redis_get(k)
    \/ \E k \in Keys, v \in Values, e \in TTLs : redis_set(k, v, e)
    \/ \E k \in Keys : redis_delete(k)
    \/ \E p \in Patterns : redis_clear_pattern(p)
    \/ redis_get_cache_stats
    \/ ServiceFlip
    \/ Tick

-----------------------------------------------------------------------------
(* cache_response: the memoization wrapper (simple_cache.py and cache.py) *)

\* The ttl the decorator is given.
MemoTTL == 1

Callers == {"c1", "c2"}
\* What the wrapped operation may return.
FValues == {PyNone, PyStr("v1"), PyStr("v2"), PyCyclic}

pfxProducts == <<"p","r","o","d","u","c","t","s">>

\* hashlib.md5(json.dumps(kwargs, sort_keys=True).encode()).hexdigest(), cut to
\* two hex digits
Md5Hex(a) == IF a = "a1" THEN <<"3", "f">> ELSE <<"c", "0">>

\* _generate_key(prefix, args=str(args), kwargs=kwargs)
generate_key(prefix, a) == prefix \o <<":">> \o Md5Hex(a)

\* cache_manager.get / set / clear_pattern of the backend in use
BackendGet(k) ==
    IF variant = "simple"
    THEN LET r == SimpleCacheManager_get(cache, connected, now, k)
         IN  [ret |-> r.ret, cache |-> r.cache, service |-> service]
    ELSE LET r == CacheManager_get(service, redis_connected, redis, serviceUp, now, k)
         IN  [ret |-> r.ret, cache |-> cache, service |-> r.service]

BackendSet(k, v, expire) ==
    IF variant = "simple"
    THEN LET r == SimpleCacheManager_set(cache, connected, now, k, v, expire)
         IN  [ret |-> r.ret, cache |-> r.cache, service |-> service]
    ELSE LET r == CacheManager_set(service, redis_connected, redis, serviceUp, now,
                                   k, v, expire)
         IN  [ret |-> r.ret, cache |-> cache, service |-> r.service]

\* invalidate_product_cache: clear_pattern("products:*"), then clear_pattern("product:*")
invalidate_product_cache_result ==
    IF variant = "simple"
    THEN LET r1 == SimpleCacheManager_clear_pattern(cache, connected, pProducts)
             r2 == SimpleCacheManager_clear_pattern(r1.cache, connected, pProduct)
         IN  [cache |-> r2.cache, service |-> service]
    ELSE LET r1 == CacheManager_clear_pattern(service, redis_connected, redis,
                                              serviceUp, now, pProducts)
             r2 == CacheManager_clear_pattern(r1.service, redis_connected, redis,
                                              serviceUp, now, pProduct)
         IN  [cache |-> cache, service |-> r2.service]

\* A wrapper call: pc "idle" (none yet) | "exec" (func is running) | "store" (func
\* has its result) | "done" (returned ret; the caller may call again).
\* executed: whether this call ran func; result: what func returned; stored: what
\* cache_manager.set returned to the wrapper (None while it has not been called).
\* expect (history): the value the previous call with these arguments returned,
\* when this call repeats it inside its ttl window, else NoValue.
\* raced (history): the call missed while another call with the same arguments
\* was between its miss and its set, or the other way round.
IdleCall == [pc |-> "idle", arg |-> "a1", result |-> PyNone, ret |-> PyNone,
             executed |-> FALSE, stored |-> PyNone, expect |-> NoValue,
             raced |-> FALSE]

\* The other calls with arguments a that have missed and not yet called set.
InFlight(c, a) ==
    {o \in Callers \ {c} : memo[o].pc \in {"exec", "store"} /\ memo[o].arg = a}

BackendUsable ==
    IF variant = "simple" THEN connected ELSE redis_connected /\ serviceUp

OthersIdle(c) == \A o \in Callers \ {c} : memo[o].pc \in {"idle", "done"}

\* a wrapper that, on a miss while another call with the same arguments is in
\* flight, returns without running func
Mut_call_single_flight(c, a) ==
    /\ memo[c].pc \in {"idle", "done"}
    /\ LET cache_key == generate_key(pfxProducts, a)
           g == BackendGet(cache_key)
           mine == [pc |-> IF g.ret # PyNone \/ InFlight(c, a) # {} THEN "done" ELSE "exec",
                    arg |-> a, result |-> PyNone, ret |-> g.ret,
                    executed |-> FALSE, stored |-> PyNone, expect |-> NoValue,
                    raced |-> g.ret = PyNone /\ InFlight(c, a) # {}]
       IN  /\ cache' = g.cache
           /\ service' = g.service
           /\ memo' = [o \in Callers |->
                          IF o = c THEN mine
                          ELSE IF g.ret = PyNone /\ o \in InFlight(c, a)
                               THEN [memo[o] EXCEPT !.raced = TRUE]
                               ELSE memo[o]]
           /\ memoLog' = [memoLog EXCEPT ![a] = NoLog]
    /\ UNCHANGED <<auxVars, serverVars, variant, now, connected, redis, redis_connected,
                   serviceUp, last, hist>>

\* wrapper(*args, **kwargs) up to the first suspension: the key, the get, and on
\* a hit the return
MemoCall(c, a) ==
    /\ memo[c].pc \in {"idle", "done"}
    /\ LET cache_key == generate_key(pfxProducts, a)
           g == BackendGet(cache_key)
           expect == IF memoLog[a].ret # NoValue /\ now < memoLog[a].exp /\ OthersIdle(c)
                     THEN memoLog[a].ret ELSE NoValue
           mine == [pc |-> IF g.ret # PyNone THEN "done" ELSE "exec",
                    arg |-> a, result |-> PyNone, ret |-> g.ret,
                    executed |-> FALSE, stored |-> PyNone, expect |-> expect,
                    raced |-> g.ret = PyNone /\ InFlight(c, a) # {}]
       IN  /\ cache' = g.cache
           /\ service' = g.service
           /\ memo' = [o \in Callers |->
                          IF o = c THEN mine
                          ELSE IF g.ret = PyNone /\ o \in InFlight(c, a)
                               THEN [memo[o] EXCEPT !.raced = TRUE]
                               ELSE memo[o]]
           /\ memoLog' = IF OthersIdle(c) THEN memoLog
                         ELSE [memoLog EXCEPT ![a] = NoLog]
    /\ UNCHANGED <<auxVars, serverVars, variant, now, connected, redis, redis_connected,
                   serviceUp, last, hist>>

\* result = await func(*args, **kwargs): func produces its value
MemoExec(c, v) ==
    /\ memo[c].pc = "exec"
    /\ memo' = [memo EXCEPT ![c].pc = "store", ![c].result = v, ![c].executed = TRUE]
    /\ UNCHANGED <<auxVars, serverVars, backendVars, memoLog>>

\* a wrapper that returns the result only when the set succeeded
Mut_store_returns_on_success(c) ==
    /\ memo[c].pc = "store"
    /\ LET cache_key == generate_key(pfxProducts, memo[c].arg)
           r == BackendSet(cache_key, memo[c].result, MemoTTL)
       IN  /\ cache' = r.cache
           /\ service' = r.service
           /\ memo' = [memo EXCEPT ![c].pc = "done", ![c].stored = r.ret,
                           ![c].ret = IF r.ret = PyTrue THEN memo[c].result ELSE PyNone]
    /\ memoLog' = [memoLog EXCEPT ![memo[c].arg] = NoLog]
    /\ UNCHANGED <<auxVars, serverVars, variant, now, connected, redis, redis_connected,
                   serviceUp, last, hist>>

\* func returns; await cache_manager.set(cache_key, result, expire); return result
MemoStore(c) ==
    /\ memo[c].pc = "store"
    /\ LET cache_key == generate_key(pfxProducts, memo[c].arg)
           r == BackendSet(cache_key, memo[c].result, MemoTTL)
       IN  /\ cache' = r.cache
           /\ service' = r.service
           /\ memo' = [memo EXCEPT ![c].pc = "done", ![c].ret = memo[c].result,
                                   ![c].stored = r.ret]
    /\ memoLog' = [memoLog EXCEPT ![memo[c].arg] =
                       IF OthersIdle(c) /\ BackendUsable
                       THEN [ret |-> memo[c].result, exp |-> now + MemoTTL]
                       ELSE NoLog]
    /\ UNCHANGED <<auxVars, serverVars, variant, now, connected, redis, redis_connected,
                   serviceUp, last, hist>>

\* A write path calls invalidate_product_cache().
MemoInvalidate ==
    /\ LET r == invalidate_product_cache_result
       IN  cache' = r.cache /\ service' = r.service
    /\ EndWindows
    /\ UNCHANGED <<auxVars, serverVars, memo, variant, now, connected, redis, redis_connected,
                   serviceUp, last, hist>>

MemoInit ==
    /\ memo = [c \in Callers |-> IdleCall]
    /\ memoLog = [a \in Args |-> NoLog]

-----------------------------------------------------------------------------
(* server.py: the request handlers that use the cache *)

\* expire= of get_products and of get_product
ProductsTTL == 300
ProductTTL  == 600

idP1 == <<"p", "1">>
idP2 == <<"p", "2">>
ProductIds == {idP1, idP2}
Fields     == {"f1", "f2"}
Reqs       == {"r1", "r2"}

pfxProduct == <<"p","r","o","d","u","c","t">>

\* f"products:{category}:{product_type}:{featured}:{search}:{min_price}:{max_price}:{limit}"
\* for a request that leaves every filter at its default, the text after the
\* prefix cut to category and limit
products_cache_key == pfxProducts \o <<":">> \o <<"N","o","n","e",":","5","0">>

\* f"product:{product_id}"
product_cache_key(id) == pfxProduct \o <<":">> \o id

\* One product document (Product(**product).dict())
PyProduct(id, f) == [t |-> "dict", id |-> id, fields |-> f]

\* A request slot.  h: the handler; pc: where it is suspended; res: what it
\* read or returns; status: "200", "404" or "500"; err: the exception that
\* escaped the handler.  History: mutated (it changed db.products), invalidated
\* (it called the cache module's invalidate_product_cache after that), mustSee
\* (the products whose create_product had returned when the request began).
IdleReq == [h |-> "-", pc |-> "idle", id |-> <<>>, res |-> PyNone, status |-> "-",
            err |-> "-", mutated |-> FALSE, invalidated |-> FALSE, mustSee |-> {}]

Free(r) == req[r].pc \in {"idle", "done"}

Begin(h, pc, id) ==
    [IdleReq EXCEPT !.h = h, !.pc = pc, !.id = id,
                    !.mustSee = {i \in ProductIds : life[i] = "created"}]

Done(rq, status, res) ==
    [rq EXCEPT !.pc = "done", !.status = status, !.res = res, !.id = <<>>]

Raise(rq, err) ==
    [rq EXCEPT !.pc = "done", !.status = "500", !.err = err, !.res = PyNone, !.id = <<>>]

\* get_products up to db.products.find: the cache lookup, and on a hit the return
get_products_start(r) ==
    /\ Free(r)
    /\ IF OPTIMIZATIONS_AVAILABLE
       THEN LET g == SimpleCacheManager_get(cache, connected, now, products_cache_key)
            IN  /\ cache' = g.cache
                /\ req' = [req EXCEPT ![r] =
                       IF Truthy(g.ret)
                       THEN Done(Begin("get_products", "idle", <<>>), "200", g.ret)
                       ELSE Begin("get_products", "query", <<>>)]
       ELSE /\ cache' = cache
            /\ req' = [req EXCEPT ![r] = Begin("get_products", "query", <<>>)]
    /\ UNCHANGED <<auxVars, memoVars, OPTIMIZATIONS_AVAILABLE, db, life, variant, now, connected,
                   redis, redis_connected, service, serviceUp, last, hist>>

\* db.products.find(filter_dict).limit(limit).to_list(limit): the store answers
get_products_query(r) ==
    /\ req[r].h = "get_products" /\ req[r].pc = "query"
    /\ req' = [req EXCEPT ![r].pc = "fetched", ![r].res = PyList(db)]
    /\ UNCHANGED <<auxVars, memoVars, backendVars, OPTIMIZATIONS_AVAILABLE, db, life>>

\* get_products from the answer on: cache_manager.set(..., expire=300), return
get_products_finish(r) ==
    /\ req[r].h = "get_products" /\ req[r].pc = "fetched"
    /\ cache' = IF OPTIMIZATIONS_AVAILABLE
                THEN SimpleCacheManager_set(cache, connected, now, products_cache_key,
                                            req[r].res, ProductsTTL).cache
                ELSE cache
    /\ req' = [req EXCEPT ![r] = Done(req[r], "200", req[r].res)]
    /\ UNCHANGED <<auxVars, memoVars, OPTIMIZATIONS_AVAILABLE, db, life, variant, now, connected,
                   redis, redis_connected, service, serviceUp, last, hist>>

\* get_product up to db.products.find_one; cache_manager is None when the import
\* failed, and cache_manager.get raises AttributeError
get_product_start(r, id) ==
    /\ Free(r)
    /\ IF ~OPTIMIZATIONS_AVAILABLE
       THEN /\ cache' = cache
            /\ req' = [req EXCEPT ![r] =
                   Raise(Begin("get_product", "idle", id), "AttributeError")]
       ELSE LET g == SimpleCacheManager_get(cache, connected, now, product_cache_key(id))
            IN  /\ cache' = g.cache
                /\ req' = [req EXCEPT ![r] =
                       IF Truthy(g.ret)
                       THEN Done(Begin("get_product", "idle", id), "200", g.ret)
                       ELSE Begin("get_product", "query", id)]
    /\ UNCHANGED <<auxVars, memoVars, OPTIMIZATIONS_AVAILABLE, db, life, variant, now, connected,
                   redis, redis_connected, service, serviceUp, last, hist>>

get_product_query(r) ==
    /\ req[r].h = "get_product" /\ req[r].pc = "query"
    /\ req' = [req EXCEPT ![r].pc = "fetched",
                          ![r].res = IF req[r].id \in DOMAIN db
                                     THEN PyProduct(req[r].id, db[req[r].id])
                                     ELSE PyNone]
    /\ UNCHANGED <<auxVars, memoVars, backendVars, OPTIMIZATIONS_AVAILABLE, db, life>>

\* get_product from the answer on: 404, or cache_manager.set(..., expire=600), return
get_product_finish(r) ==
    /\ req[r].h = "get_product" /\ req[r].pc = "fetched"
    /\ IF req[r].res = PyNone
       THEN /\ cache' = cache
            /\ req' = [req EXCEPT ![r] = Done(req[r], "404", PyNone)]
       ELSE /\ cache' = SimpleCacheManager_set(cache, connected, now,
                            product_cache_key(req[r].id), req[r].res, ProductTTL).cache
            /\ req' = [req EXCEPT ![r] = Done(req[r], "200", req[r].res)]
    /\ UNCHANGED <<auxVars, memoVars, OPTIMIZATIONS_AVAILABLE, db, life, variant, now, connected,
                   redis, redis_connected, service, serviceUp, last, hist>>

\* create_product: db.products.insert_one(product.dict()), with a fresh uuid4 id
create_product_insert(r, id, f) ==
    /\ Free(r)
    /\ life[id] = "unused"
    /\ db' = Put(db, id, f)
    /\ life' = [life EXCEPT ![id] = "inserted"]
    /\ req' = [req EXCEPT ![r] =
           [Begin("create_product", "inserted", id) EXCEPT
                !.mutated = TRUE, !.res = PyProduct(id, f)]]
    /\ UNCHANGED <<auxVars, memoVars, backendVars, OPTIMIZATIONS_AVAILABLE>>

\* create_product after the insert: await invalidate_product_cache(), return.
\* The fallback stub is lambda: None, and awaiting None raises TypeError.
create_product_finish(r) ==
    /\ req[r].h = "create_product" /\ req[r].pc = "inserted"
    /\ IF OPTIMIZATIONS_AVAILABLE
       THEN LET r1 == SimpleCacheManager_clear_pattern(cache, connected, pProducts)
                r2 == SimpleCacheManager_clear_pattern(r1.cache, connected, pProduct)
            IN  /\ cache' = r2.cache
                /\ req' = [req EXCEPT ![r] =
                       Done([req[r] EXCEPT !.invalidated = TRUE], "200", req[r].res)]
                /\ life' = [life EXCEPT ![req[r].id] =
                                IF @ = "inserted" THEN "created" ELSE @]
       ELSE /\ cache' = cache
            /\ req' = [req EXCEPT ![r] = Raise(req[r], "TypeError")]
            /\ life' = life
    /\ UNCHANGED <<auxVars, memoVars, OPTIMIZATIONS_AVAILABLE, db, variant, now, connected,
                   redis, redis_connected, service, serviceUp, last, hist>>

\* update_product: existing_product = find_one; 404 when there is none
update_product_find(r, id) ==
    /\ Free(r)
    /\ req' = [req EXCEPT ![r] =
           IF id \in DOMAIN db
           THEN Begin("update_product", "found", id)
           ELSE Done(Begin("update_product", "idle", id), "404", PyNone)]
    /\ UNCHANGED <<auxVars, memoVars, backendVars, OPTIMIZATIONS_AVAILABLE, db, life>>

\* update_product: db.products.update_one({"id": product_id}, {"$set": update_data})
update_product_update(r, f) ==
    /\ req[r].h = "update_product" /\ req[r].pc = "found"
    /\ IF req[r].id \in DOMAIN db
       THEN /\ db' = [db EXCEPT ![req[r].id] = f]
            /\ req' = [req EXCEPT ![r].pc = "updated", ![r].mutated = TRUE]
       ELSE /\ db' = db
            /\ req' = [req EXCEPT ![r].pc = "updated"]
    /\ UNCHANGED <<auxVars, memoVars, backendVars, OPTIMIZATIONS_AVAILABLE, life>>

\* update_product: updated_product = find_one; return Product(**updated_product)
update_product_finish(r) ==
    /\ req[r].h = "update_product" /\ req[r].pc = "updated"
    /\ req' = [req EXCEPT ![r] =
           IF req[r].id \in DOMAIN db
           THEN Done(req[r], "200", PyProduct(req[r].id, db[req[r].id]))
           ELSE Raise(req[r], "TypeError")]
    /\ UNCHANGED <<auxVars, memoVars, backendVars, OPTIMIZATIONS_AVAILABLE, db, life>>

\* delete_product: result = db.products.delete_one({"id": product_id})
delete_product_delete(r, id) ==
    /\ Free(r)
    /\ IF id \in DOMAIN db
       THEN /\ db' = Drop(db, {id})
            /\ life' = [life EXCEPT ![id] = "deleted"]
            /\ req' = [req EXCEPT ![r] =
                   [Begin("delete_product", "deleted", id) EXCEPT !.mutated = TRUE]]
       ELSE /\ db' = db
            /\ life' = life
            /\ req' = [req EXCEPT ![r] = Begin("delete_product", "deleted", id)]
    /\ UNCHANGED <<auxVars, memoVars, backendVars, OPTIMIZATIONS_AVAILABLE>>

\* delete_product: 404 when deleted_count == 0, else the message
delete_product_finish(r) ==
    /\ req[r].h = "delete_product" /\ req[r].pc = "deleted"
    /\ req' = [req EXCEPT ![r] =
           IF req[r].mutated THEN Done(req[r], "200", PyNone)
           ELSE Done(req[r], "404", PyNone)]
    /\ UNCHANGED <<auxVars, memoVars, backendVars, OPTIMIZATIONS_AVAILABLE, db, life>>

\* get_cache_performance and health_check: await get_cache_stats().  The
\* fallback stub returns a dict, and awaiting a dict raises TypeError.
cache_stats_request(r, h) ==
    /\ Free(r)
    /\ IF OPTIMIZATIONS_AVAILABLE
       THEN LET st == Simple_get_cache_stats(cache, connected, now)
            IN  /\ cache' = st.cache
                /\ req' = [req EXCEPT ![r] =
                       Done(Begin(h, "idle", <<>>), "200", PyStr(st.ret.status))]
       ELSE /\ cache' = cache
            /\ req' = [req EXCEPT ![r] = Raise(Begin(h, "idle", <<>>), "TypeError")]
    /\ UNCHANGED <<auxVars, memoVars, OPTIMIZATIONS_AVAILABLE, db, life, variant, now, connected,
                   redis, redis_connected, service, serviceUp, last, hist>>

\* shutdown_event: cache_manager.disconnect() when the cache modules imported
shutdown_event ==
    /\ OPTIMIZATIONS_AVAILABLE
    /\ connected
    /\ cache' = <<>>
    /\ connected' = FALSE
    /\ UNCHANGED <<auxVars, memoVars, serverVars, variant, now, redis, redis_connected,
                   service, serviceUp, last, hist>>

\* The server module imported its cache modules or fell back to the stubs;
\* db.products holds a sample product; startup_event has run.
ServerInit ==
    /\ OPTIMIZATIONS_AVAILABLE \in BOOLEAN
    /\ db = [i \in {idP1} |-> "f1"]
    /\ req = [r \in Reqs |-> IdleReq]
    /\ life = [i \in ProductIds |-> IF i \in DOMAIN db THEN "seeded" ELSE "unused"]

\* The server variables while the backends or the wrapper are driven alone.
ServerQuiet ==
    /\ OPTIMIZATIONS_AVAILABLE = TRUE
    /\ db = <<>>
    /\ req = [r \in Reqs |-> IdleReq]
    /\ life = [i \in ProductIds |-> "unused"]

\* _generate_key and the paired backends while the others are driven.
NoDerive == [pc |-> "-"]
NoPair == [op |-> "-"]
NoEntry == [data |-> PyNone, expires_at |-> 0, created_at |-> 0]
\* No get is running: the event loop is free.
NoLoop == [running |-> "-", pc |-> "idle", key |-> <<>>, entry |-> NoEntry, time |-> 0,
           ret |-> PyNone, exc |-> "-"]
NoFlight == [op |-> "-"]
Colors == {"red", "blue"}
\* The session's requests: none is running.
IdleTask == [h |-> "-", pc |-> "idle", status |-> "-", product_id |-> <<>>,
             selected_color |-> "-", quantity |-> 0, cart |-> <<>>, email |-> "-"]
ShopQuiet ==
    /\ carts = <<>>
    /\ users = <<>>
    /\ task = [r \in Reqs |-> IdleTask]
    /\ added = [pc \in ProductIds \X Colors |-> 0]
StepQuiet == loop = NoLoop /\ flight = NoFlight /\ answers = TRUE /\ ShopQuiet
AuxQuiet == derive = NoDerive /\ pair = NoPair /\ StepQuiet

Init == BackendInit /\ MemoInit /\ ServerQuiet /\ AuxQuiet
Next == BackendNext
Spec == Init /\ [][Next]_vars

MemoNext ==
    \/ \E c \in Callers, a \in Args : MemoCall(c, a)
    \/ \E c \in Callers, v \in FValues : MemoExec(c, v)
    \/ \E c \in Callers : MemoStore(c)
    \/ MemoInvalidate
    \/ simple_connect
    \/ simple_disconnect
    \/ redis_connect(TRUE)
    \/ redis_disconnect(TRUE)
    \/ ServiceFlip
    \/ Tick

SpecMemo == Init /\ [][MemoNext]_vars

InitServer ==
    /\ BackendInit /\ variant = "simple" /\ serviceUp = FALSE
    /\ MemoInit
    /\ ServerInit
    /\ AuxQuiet

ServerNext ==
    \/ \E r \in Reqs : get_products_start(r)
    \/ \E r \in Reqs : get_products_query(r)
    \/ \E r \in Reqs : get_products_finish(r)
    \/ \E r \in Reqs, id \in ProductIds : get_product_start(r, id)
    \/ \E r \in Reqs : get_product_query(r)
    \/ \E r \in Reqs : get_product_finish(r)
    \/ \E r \in Reqs, id \in ProductIds : create_product_insert(r, id, "f1")
    \/ \E r \in Reqs : create_product_finish(r)
    \/ \E r \in Reqs, id \in ProductIds : update_product_find(r, id)
    \/ \E r \in Reqs : update_product_update(r, "f2")
    \/ \E r \in Reqs : update_product_finish(r)
    \/ \E r \in Reqs, id \in ProductIds : delete_product_delete(r, id)
    \/ \E r \in Reqs : delete_product_finish(r)
    \/ \E r \in Reqs, h \in {"get_cache_performance", "health_check"} :
           cache_stats_request(r, h)
    \/ shutdown_event

SpecServer == InitServer /\ [][ServerNext]_vars

-----------------------------------------------------------------------------
(* _generate_key: the key deriver (simple_cache.py and cache.py, the same code) *)

\* The hex digits kept of the md5 digest.
HexDigits == 2

PyInt(n) == [t |-> "int", n |-> n]
\* a dict, in construction order: items is a sequence of [k, v], the keys distinct
PyDict(items) == [t |-> "dict", items |-> items]

KeyNames == {"a", "b"}
Atoms    == {PyInt(1), PyInt(2)}

\* The dicts over the values of V, in every construction order.
OrderedDicts(V) ==
    UNION {{s \in [1..n -> [k : KeyNames, v : V]] :
               \A i, j \in 1..n : i # j => s[i].k # s[j].k} :
           n \in 0..Cardinality(KeyNames)}

InnerDicts == {PyDict(s) : s \in OrderedDicts(Atoms)}
\* The keyword parameters _generate_key is called with.
Kwargs == {PyDict(s) : s \in OrderedDicts(Atoms \cup InnerDicts)}

nsUser == <<"u","s","e","r",":","1">>
Namespaces == {pfxProducts, pfxProduct, nsUser}

\* ord(ch) of the characters of the JSON texts
Ord(ch) ==
    CASE ch = " "  -> 32
      [] ch = "\"" -> 34
      [] ch = ","  -> 44
      [] ch = "1"  -> 49
      [] ch = "2"  -> 50
      [] ch = ":"  -> 58
      [] ch = "a"  -> 97
      [] ch = "b"  -> 98
      [] ch = "{"  -> 123
      [] ch = "}"  -> 125

\* sorted(items) by key, as sort_keys=True orders them
RECURSIVE SortItems(_)
SortItems(items) ==
    IF items = <<>> THEN <<>>
    ELSE LET m == CHOOSE i \in 1..Len(items) :
                      \A j \in 1..Len(items) : Ord(items[i].k) <= Ord(items[j].k)
             rest == [i \in 1..(Len(items) - 1) |->
                          IF i < m THEN items[i] ELSE items[i + 1]]
         IN  <<items[m]>> \o SortItems(rest)

RECURSIVE Mut_dumps_unsorted(_)
\* json.dumps without sort_keys: the items in construction order
Mut_dumps_unsorted(v) ==
    IF v.t = "int" THEN (IF v.n = 1 THEN <<"1">> ELSE <<"2">>)
    ELSE LET RECURSIVE Join(_)
             Join(items) ==
                 IF items = <<>> THEN <<>>
                 ELSE <<"\"", Head(items).k, "\"", ":", " ">>
                      \o Mut_dumps_unsorted(Head(items).v)
                      \o (IF Tail(items) = <<>> THEN <<>> ELSE <<",", " ">>)
                      \o Join(Tail(items))
         IN  <<"{">> \o Join(v.items) \o <<"}">>

RECURSIVE json_dumps_sorted(_)
\* json.dumps(value, sort_keys=True): the text, character by character
json_dumps_sorted(v) ==
    IF v.t = "int" THEN (IF v.n = 1 THEN <<"1">> ELSE <<"2">>)
    ELSE LET RECURSIVE Join(_)
             Join(items) ==
                 IF items = <<>> THEN <<>>
                 ELSE <<"\"", Head(items).k, "\"", ":", " ">>
                      \o json_dumps_sorted(Head(items).v)
                      \o (IF Tail(items) = <<>> THEN <<>> ELSE <<",", " ">>)
                      \o Join(Tail(items))
         IN  <<"{">> \o Join(SortItems(v.items)) \o <<"}">>

HexChars == <<"0","1","2","3","4","5","6","7","8","9","a","b","c","d","e","f">>

RECURSIVE Pow16(_)
Pow16(n) == IF n = 0 THEN 1 ELSE 16 * Pow16(n - 1)

RECURSIVE ToHex(_, _)
ToHex(n, width) ==
    IF width = 0 THEN <<>>
    ELSE ToHex(n \div 16, width - 1) \o <<HexChars[(n % 16) + 1]>>

RECURSIVE Checksum(_, _)
Checksum(text, h) ==
    IF text = <<>> THEN h
    ELSE Checksum(Tail(text), (h * 31 + Ord(Head(text))) % Pow16(HexDigits))

\* hashlib.md5(key_data.encode()).hexdigest(): a digest of the text of fixed
\* width, here a checksum of HexDigits hex digits
md5_hexdigest(text) == ToHex(Checksum(text, 7), HexDigits)

\* a key made of a fixed prefix and the digest, without the caller's prefix
Mut_key_without_prefix(prefix, kwargs) ==
    <<"k">> \o <<":">> \o md5_hexdigest(json_dumps_sorted(kwargs))

\* _generate_key(prefix, **kwargs)
SimpleCacheManager_generate_key(prefix, kwargs) ==
    LET key_data == json_dumps_sorted(kwargs)
        key_hash == md5_hexdigest(key_data)
    IN  prefix \o <<":">> \o key_hash

\* Python's == on the values: dicts are equal when they hold the same pairs
RECURSIVE AsMapping(_)
AsMapping(v) ==
    IF v.t = "int" THEN v
    ELSE [t |-> "mapping",
          m |-> [k \in {v.items[i].k : i \in 1..Len(v.items)} |->
                    AsMapping(v.items[CHOOSE i \in 1..Len(v.items) :
                                              v.items[i].k = k].v)]]

\* _generate_key is called with prefixes n1 and n2, and with keyword parameters
\* p1 and p2 that hold the same pairs: k11, k12 and k21 are the keys of (n1, p1),
\* (n1, p2) and (n2, p1).
generate_key_calls ==
    /\ derive.pc = "in"
    /\ derive' = [derive EXCEPT
           !.pc = "out",
           !.k11 = SimpleCacheManager_generate_key(derive.n1, derive.p1),
           !.k12 = SimpleCacheManager_generate_key(derive.n1, derive.p2),
           !.k21 = SimpleCacheManager_generate_key(derive.n2, derive.p1)]
    /\ UNCHANGED <<backendVars, memoVars, serverVars, pair, stepVars>>

InitKey ==
    /\ BackendInit /\ variant = "simple" /\ serviceUp = FALSE
    /\ MemoInit
    /\ ServerQuiet
    /\ pair = NoPair
    /\ StepQuiet
    /\ \E p1 \in Kwargs, p2 \in Kwargs :
           /\ AsMapping(p1) = AsMapping(p2)
           /\ \E n1 \in Namespaces, n2 \in Namespaces :
                  derive = [pc |-> "in", n1 |-> n1, n2 |-> n2, p1 |-> p1, p2 |-> p2,
                            k11 |-> <<>>, k12 |-> <<>>, k21 |-> <<>>]

KeyNext == generate_key_calls

SpecKey == InitKey /\ [][KeyNext]_vars

-----------------------------------------------------------------------------
(* The two backends driven by one sequence of calls *)

\* One call made on both cache managers: what the in-process one and the remote
\* one returned.
Both(op, key, simple, remote) ==
    [op |-> op, key |-> key, simple |-> simple, remote |-> remote]

pair_connect ==
    /\ variant = "both"
    /\ LET r == CacheManager_connect(redis, redis_connected, TRUE, serviceUp)
       IN  /\ cache' = <<>>
           /\ connected' = TRUE
           /\ redis' = r.redis
           /\ redis_connected' = r.connected
           /\ pair' = Both("connect", <<>>, PyNone, PyNone)
    /\ UNCHANGED <<memoVars, serverVars, derive, stepVars, variant, now, service, serviceUp, last, hist>>

pair_get(k) ==
    /\ variant = "both"
    /\ LET s == SimpleCacheManager_get(cache, connected, now, k)
           r == CacheManager_get(service, redis_connected, redis, serviceUp, now, k)
       IN  /\ cache' = s.cache
           /\ service' = r.service
           /\ pair' = Both("get", k, s.ret, r.ret)
    /\ UNCHANGED <<memoVars, serverVars, derive, stepVars, variant, now, connected, redis,
                   redis_connected, serviceUp, last, hist>>

pair_set(k, v, expire) ==
    /\ variant = "both"
    /\ LET s == SimpleCacheManager_set(cache, connected, now, k, v, expire)
           r == CacheManager_set(service, redis_connected, redis, serviceUp, now,
                                 k, v, expire)
       IN  /\ cache' = s.cache
           /\ service' = r.service
           /\ pair' = Both("set", k, s.ret, r.ret)
    /\ UNCHANGED <<memoVars, serverVars, derive, stepVars, variant, now, connected, redis,
                   redis_connected, serviceUp, last, hist>>

pair_delete(k) ==
    /\ variant = "both"
    /\ LET s == SimpleCacheManager_delete(cache, connected, k)
           r == CacheManager_delete(service, redis_connected, redis, serviceUp, k)
       IN  /\ cache' = s.cache
           /\ service' = r.service
           /\ pair' = Both("delete", k, s.ret, r.ret)
    /\ UNCHANGED <<memoVars, serverVars, derive, stepVars, variant, now, connected, redis,
                   redis_connected, serviceUp, last, hist>>

pair_clear_pattern(pattern) ==
    /\ variant = "both"
    /\ LET s == SimpleCacheManager_clear_pattern(cache, connected, pattern)
           r == CacheManager_clear_pattern(service, redis_connected, redis, serviceUp,
                                           now, pattern)
       IN  /\ cache' = s.cache
           /\ service' = r.service
           /\ pair' = Both("clear_pattern", pattern, s.ret, r.ret)
    /\ UNCHANGED <<memoVars, serverVars, derive, stepVars, variant, now, connected, redis,
                   redis_connected, serviceUp, last, hist>>

\* Both managers after startup_event's connect(), the remote one against a
\* service that answers.
InitPair ==
    /\ variant = "both"
    /\ now = 0
    /\ cache = <<>>
    /\ connected = TRUE
    /\ redis = "open"
    /\ redis_connected = TRUE
    /\ service = <<>>
    /\ serviceUp = TRUE
    /\ last = Call("init", <<>>, PyNone, FALSE)
    /\ hist = [k \in Keys |-> NoHist]
    /\ MemoInit
    /\ ServerQuiet
    /\ derive = NoDerive
    /\ StepQuiet
    /\ pair = Both("connect", <<>>, PyNone, PyNone)

PairNext ==
    \/ pair_connect
    \/ \E k \in Keys : pair_get(k)
    \/ \E k \in Keys, v \in Values, e \in {t \in TTLs : t > 0} : pair_set(k, v, e)
    \/ \E k \in Keys : pair_delete(k)
    \/ \E p \in Patterns : pair_clear_pattern(p)
    \/ Tick

SpecPair == InitPair /\ [][PairNext]_vars

-----------------------------------------------------------------------------
(* SimpleCacheManager.get, statement by statement, among the other handlers *)

\* The handlers are coroutines on one event loop: a coroutine that has started
\* runs until its next await, and get has none.  loop.running is the method that
\* holds the loop; the other handlers' cache calls start when it is free.

\* a handler calls get(key): the loop runs it
get_enter(k) ==
    /\ variant = "simple"
    /\ loop.running = "-"
    /\ loop' = [NoLoop EXCEPT !.running = "get", !.pc = "check", !.key = k]
    /\ UNCHANGED <<backendVars, memoVars, serverVars, derive, pair, flight, answers, shopVars>>

\* get returns to its caller and frees the loop
Return(ret, exc) ==
    [loop EXCEPT !.running = "-", !.pc = "done", !.ret = ret, !.exc = exc]

\* get_check followed by an await (asyncio.sleep(0)) before the entry is read
Mut_get_check_yields ==
    /\ loop.pc = "check"
    /\ loop' = IF ~connected \/ loop.key \notin DOMAIN cache
               THEN Return(PyNone, "-")
               ELSE [loop EXCEPT !.pc = "load", !.running = "-"]
    /\ UNCHANGED <<backendVars, memoVars, serverVars, derive, pair, flight, answers, shopVars>>

\* if not self.connected: return None;  if key in self.cache: ... return None
get_check ==
    /\ loop.pc = "check"
    /\ loop' = IF ~connected \/ loop.key \notin DOMAIN cache
               THEN Return(PyNone, "-")
               ELSE [loop EXCEPT !.pc = "load"]
    /\ UNCHANGED <<backendVars, memoVars, serverVars, derive, pair, flight, answers, shopVars>>

\* cache_entry = self.cache[key]; current_time = time.time()
\* (a KeyError is caught by except Exception: return None)
get_load ==
    /\ loop.pc = "load"
    /\ loop' = IF loop.key \in DOMAIN cache
               THEN [loop EXCEPT !.pc = "expiry", !.entry = cache[loop.key], !.time = now]
               ELSE Return(PyNone, "KeyError")
    /\ UNCHANGED <<backendVars, memoVars, serverVars, derive, pair, flight, answers, shopVars>>

\* if current_time > cache_entry['expires_at']: del self.cache[key]; return None
\* return cache_entry['data']
get_return ==
    /\ loop.pc = "expiry"
    /\ IF loop.time > loop.entry.expires_at
       THEN IF loop.key \in DOMAIN cache
            THEN cache' = Drop(cache, {loop.key}) /\ loop' = Return(PyNone, "-")
            ELSE cache' = cache /\ loop' = Return(PyNone, "KeyError")
       ELSE cache' = cache /\ loop' = Return(loop.entry.data, "-")
    /\ UNCHANGED <<memoVars, serverVars, derive, pair, flight, answers, shopVars, variant, now, connected,
                   redis, redis_connected, service, serviceUp, last, hist>>

LoopFree == loop.running = "-"

InitAtomic ==
    /\ BackendInit /\ variant = "simple" /\ serviceUp = FALSE
    /\ MemoInit
    /\ ServerQuiet
    /\ AuxQuiet

AtomicNext ==
    \/ \E k \in Keys : get_enter(k)
    \/ get_check
    \/ get_load
    \/ get_return
    \/ (LoopFree /\ simple_connect)
    \/ (LoopFree /\ simple_disconnect)
    \/ \E k \in Keys, e \in {0, 1} : LoopFree /\ simple_set(k, PyStr("v1"), e)
    \/ \E k \in Keys : LoopFree /\ simple_delete(k)
    \/ \E p \in {pAll, pProduct} : LoopFree /\ simple_clear_pattern(p)
    \/ (LoopFree /\ simple_get_cache_stats)
    \/ Tick

SpecAtomic == InitAtomic /\ [][AtomicNext]_vars

-----------------------------------------------------------------------------
(* CacheManager's awaits on the key-value service *)

\* Each method awaits one request to the service (ping, get, setex, delete,
\* keys): the coroutine resumes when the client gets a reply or a transport
\* error.  aioredis.from_url(redis_url, decode_responses=True) sets no
\* socket_timeout and no method wraps its await in a timeout.

RemoteOps == {"connect", "get", "set", "delete", "clear_pattern"}

\* the value returned by the early return of each method
Refused(op) == IF op = "get" THEN PyNone ELSE PyFalse

\* a handler calls the method: it returns at once when the backend is disabled,
\* otherwise it sends its request and awaits
remote_call(op, key) ==
    /\ variant = "redis"
    /\ flight = NoFlight
    /\ IF op = "connect" \/ (redis_connected /\ redis = "open")
       THEN flight' = [op |-> op, key |-> key] /\ last' = last
       ELSE flight' = flight /\ last' = Call(op, key, Refused(op), FALSE)
    /\ UNCHANGED <<memoVars, serverVars, derive, pair, loop, answers, shopVars, variant, now, cache,
                   connected, redis, redis_connected, service, serviceUp, hist>>

\* the reply (or the transport's error) arrives and the method runs to its return
remote_reply ==
    /\ variant = "redis"
    /\ flight # NoFlight
    /\ answers
    /\ flight' = NoFlight
    /\ IF flight.op = "connect"
       THEN LET r == CacheManager_connect(redis, redis_connected, TRUE, serviceUp)
            IN  /\ redis' = r.redis
                /\ redis_connected' = r.connected
                /\ service' = service
                /\ last' = [Call("connect", <<>>, PyNone, r.net) EXCEPT !.exc = r.exc]
       ELSE LET r == IF flight.op = "get"
                     THEN CacheManager_get(service, redis_connected, redis, serviceUp,
                                           now, flight.key)
                     ELSE IF flight.op = "set"
                     THEN CacheManager_set(service, redis_connected, redis, serviceUp,
                                           now, flight.key, PyStr("v1"), 1)
                     ELSE IF flight.op = "delete"
                     THEN CacheManager_delete(service, redis_connected, redis, serviceUp,
                                              flight.key)
                     ELSE CacheManager_clear_pattern(service, redis_connected, redis,
                                                     serviceUp, now, flight.key)
            IN  /\ service' = r.service
                /\ last' = Call(flight.op, flight.key, r.ret, r.net)
                /\ UNCHANGED <<redis, redis_connected>>
    /\ UNCHANGED <<memoVars, serverVars, derive, pair, loop, answers, shopVars, variant, now, cache,
                   connected, serviceUp, hist>>

\* the service, or the network path to it, starts or stops replying
Silence ==
    /\ variant = "redis"
    /\ answers' = ~answers
    /\ UNCHANGED <<backendVars, memoVars, serverVars, derive, pair, loop, flight, shopVars>>

InitFlight ==
    /\ BackendInit /\ variant = "redis"
    /\ MemoInit
    /\ ServerQuiet
    /\ AuxQuiet

FlightNext ==
    \/ remote_call("connect", <<>>)
    \/ \E op \in RemoteOps \ {"connect", "clear_pattern"}, k \in Keys : remote_call(op, k)
    \/ \E p \in {pAll, pProducts} : remote_call("clear_pattern", p)
    \/ remote_reply
    \/ Silence
    \/ ServiceFlip
    \/ Tick

\* The event loop resumes a coroutine whose awaited reply has arrived.
SpecFlight == InitFlight /\ [][FlightNext]_vars /\ WF_vars(remote_reply)

-----------------------------------------------------------------------------
(* The service shared with other clients *)

\* The service at REDIS_URL holds whatever any of its clients wrote: texts that
\* json.loads rejects.
ForeignTexts == {"garbage", "\"v1"}

\* another client of the service writes text under key k
ForeignWrite(k, text) ==
    /\ variant = "redis"
    /\ serviceUp
    /\ service' = Put(service, k, [val |-> text, exp |-> now + 1])
    /\ UNCHANGED <<auxVars, memoVars, serverVars, variant, now, cache, connected, redis,
                   redis_connected, serviceUp, last, hist>>

InitShared ==
    /\ BackendInit /\ variant = "redis"
    /\ MemoInit
    /\ ServerQuiet
    /\ AuxQuiet

SharedNext ==
    \/ redis_connect(TRUE)
    \/ redis_disconnect(TRUE)
    \/ \E k \in Keys : redis_get(k)
    \/ \E k \in Keys, v \in Values : redis_set(k, v, 1)
    \/ \E k \in Keys : redis_delete(k)
    \/ \E k \in Keys, text \in ForeignTexts : ForeignWrite(k, text)
    \/ ServiceFlip
    \/ Tick

SpecShared == InitShared /\ [][SharedNext]_vars

-----------------------------------------------------------------------------
(* clear_pattern of the in-process backend with '*' before the end *)

pLeading  == <<"*",":","a">>
pInterior == <<"p","r","o","d","u","c","t","*",":","a">>
pSeveral  == <<"*","d","u","c","t","*">>

\* Patterns with a leading, an interior and several wildcards.
GlobPatterns == {pLeading, pInterior, pSeveral}

InitGlob ==
    /\ BackendInit /\ variant = "simple" /\ serviceUp = FALSE
    /\ MemoInit
    /\ ServerQuiet
    /\ AuxQuiet

GlobNext ==
    \/ \E k \in Keys, v \in Values : simple_set(k, v, 1)
    \/ \E k \in Keys : simple_get(k)
    \/ \E p \in GlobPatterns : simple_clear_pattern(p)
    \/ Tick

SpecGlob == InitGlob /\ [][GlobNext]_vars

-----------------------------------------------------------------------------
(* invalidate_user_cache on either backend *)

pfxUser  == <<"u","s","e","r">>

\* User identifiers: one a prefix of another, one with ':' and one with '*'.
UserIds  == {<<"a">>, <<"a","b">>, <<"a",":","b">>, <<"a","*">>}
Suffixes == {<<"x">>, <<"y">>}

\* a key cached for user u: "user:<u>:<suffix>"
user_key(u, sfx) == pfxUser \o <<":">> \o u \o <<":">> \o sfx

\* f"user:{user_id}:*"
user_pattern(u) == pfxUser \o <<":">> \o u \o <<":", "*">>

\* The keys the backend in use holds.
Stored == IF variant = "simple" THEN DOMAIN cache ELSE DOMAIN service

\* cache_manager.set(key, value, expire) for a key of user u
user_set(u, sfx) ==
    /\ IF variant = "simple"
       THEN LET r == SimpleCacheManager_set(cache, connected, now, user_key(u, sfx),
                                            PyStr("v1"), ProductsTTL)
            IN  /\ cache' = r.cache
                /\ service' = service
                /\ last' = Call("set", user_key(u, sfx), r.ret, FALSE)
       ELSE LET r == CacheManager_set(service, redis_connected, redis, serviceUp, now,
                                      user_key(u, sfx), PyStr("v1"), ProductsTTL)
            IN  /\ service' = r.service
                /\ cache' = cache
                /\ last' = Call("set", user_key(u, sfx), r.ret, r.net)
    /\ UNCHANGED <<auxVars, memoVars, serverVars, variant, now, connected, redis,
                   redis_connected, serviceUp, hist>>

\* await cache_manager.clear_pattern(f"user:{user_id}:*")
invalidate_user_cache(u) ==
    /\ IF variant = "simple"
       THEN LET r == SimpleCacheManager_clear_pattern(cache, connected, user_pattern(u))
            IN  /\ cache' = r.cache
                /\ service' = service
                /\ last' = Call("invalidate_user_cache", u, PyNone, FALSE)
       ELSE LET r == CacheManager_clear_pattern(service, redis_connected, redis,
                                                serviceUp, now, user_pattern(u))
            IN  /\ service' = r.service
                /\ cache' = cache
                /\ last' = Call("invalidate_user_cache", u, PyNone, r.net)
    /\ UNCHANGED <<auxVars, memoVars, serverVars, variant, now, connected, redis,
                   redis_connected, serviceUp, hist>>

\* Either backend after a successful connect.
InitUser ==
    /\ variant \in {"simple", "redis"}
    /\ now = 0
    /\ cache = <<>>
    /\ connected = TRUE
    /\ redis = IF variant = "redis" THEN "open" ELSE "None"
    /\ redis_connected = (variant = "redis")
    /\ service = <<>>
    /\ serviceUp = (variant = "redis")
    /\ last = Call("init", <<>>, PyNone, FALSE)
    /\ hist = [k \in Keys |-> NoHist]
    /\ MemoInit
    /\ ServerQuiet
    /\ AuxQuiet

UserNext ==
    \/ \E u \in UserIds, sfx \in Suffixes : user_set(u, sfx)
    \/ \E u \in UserIds : invalidate_user_cache(u)

SpecUser == InitUser /\ [][UserNext]_vars

-----------------------------------------------------------------------------
(* The cache key of get_products *)

\* a str query parameter, as its characters
QStr(chars) == [t |-> "str", chars |-> chars]

Digit(d) ==
    CASE d = 0 -> "0" [] d = 1 -> "1" [] d = 2 -> "2" [] d = 3 -> "3" [] d = 4 -> "4"
      [] d = 5 -> "5" [] d = 6 -> "6" [] d = 7 -> "7" [] d = 8 -> "8" [] d = 9 -> "9"

\* str(v), as the f-string formats each parameter (ints below 100)
Str(v) ==
    IF v = PyNone THEN <<"N","o","n","e">>
    ELSE IF v = PyTrue THEN <<"T","r","u","e">>
    ELSE IF v = PyFalse THEN <<"F","a","l","s","e">>
    ELSE IF v.t = "int"
         THEN IF v.n < 10 THEN <<Digit(v.n)>>
              ELSE <<Digit(v.n \div 10), Digit(v.n % 10)>>
    ELSE v.chars

\* The parameters of a request: Optional[str], Optional[bool], Optional[float], int
Categories   == {PyNone, QStr(<<"N","o","n","e">>), QStr(<<"a">>), QStr(<<"a",":","b">>)}
ProductTypes == {PyNone, QStr(<<"c">>), QStr(<<"b",":","c">>)}
Featured     == {PyNone, PyTrue}
Searches     == {PyNone}
Prices       == {PyNone}
Limits       == {PyInt(5), PyInt(50)}

Queries ==
    [category : Categories, product_type : ProductTypes, featured : Featured,
     search : Searches, min_price : Prices, max_price : Prices, limit : Limits]

\* f"products:{category}:{product_type}:{featured}:{search}:{min_price}:{max_price}:{limit}"
get_products_cache_key(q) ==
    pfxProducts \o <<":">> \o Str(q.category) \o <<":">> \o Str(q.product_type)
        \o <<":">> \o Str(q.featured) \o <<":">> \o Str(q.search)
        \o <<":">> \o Str(q.min_price) \o <<":">> \o Str(q.max_price)
        \o <<":">> \o Str(q.limit)

\* two requests reach the cache_key assignment
get_products_keys ==
    /\ derive.pc = "in"
    /\ derive' = [derive EXCEPT !.pc = "out",
                                !.k1 = get_products_cache_key(derive.q1),
                                !.k2 = get_products_cache_key(derive.q2)]
    /\ UNCHANGED <<backendVars, memoVars, serverVars, pair, stepVars>>

InitQuery ==
    /\ BackendInit /\ variant = "simple" /\ serviceUp = FALSE
    /\ MemoInit
    /\ ServerQuiet
    /\ pair = NoPair
    /\ StepQuiet
    /\ \E q1 \in Queries, q2 \in Queries :
           derive = [pc |-> "in", q1 |-> q1, q2 |-> q2, k1 |-> <<>>, k2 |-> <<>>]

QueryNext == get_products_keys

SpecQuery == InitQuery /\ [][QueryNext]_vars

-----------------------------------------------------------------------------
(* add_to_cart and create_user: the handlers between their awaits (server.py) *)

\* Each handler is a coroutine that suspends at every await on the document
\* store; the store serves one request at a time, and other handlers run while
\* one is suspended.  No collection has a unique index: create_indexes passes
\* ("email", 1) and ("session_id", 1) to create_index without unique=True.

\* The additions a behaviour makes sum to at most MaxQty.
MaxQty   == 3
\* db.users holds at most MaxUsers documents.
MaxUsers == 3

Quantities == {1, 2}
Emails     == {"a@x", "b@x"}

TaskFree(r) == task[r].pc \in {"idle", "done"}

\* the quantity of the additions that are under way
Pending == LET q(r) == IF task[r].h = "add_to_cart" /\ ~TaskFree(r)
                       THEN task[r].quantity ELSE 0
           IN  q("r1") + q("r2")

Total == LET f[S \in SUBSET (ProductIds \X Colors)] ==
                 IF S = {} THEN 0
                 ELSE LET x == CHOOSE y \in S : TRUE IN added[x] + f[S \ {x}]
         IN  f[ProductIds \X Colors]

\* CartItem(**item_data.dict())
CartItem(p, c, q) == [product_id |-> p, selected_color |-> c, quantity |-> q]

\* the positions of the items of the cart with product p and colour c
Matching(items, p, c) ==
    {i \in 1..Len(items) : items[i].product_id = p /\ items[i].selected_color = c}

\* the loop over cart.items, then existing_item.quantity += ... or
\* cart.items.append(new_item)
Merge(items, p, c, q) ==
    IF Matching(items, p, c) # {}
    THEN LET i == CHOOSE j \in Matching(items, p, c) :
                      \A l \in Matching(items, p, c) : j <= l
         IN  [items EXCEPT ![i].quantity = @ + q]
    ELSE Append(items, CartItem(p, c, q))

\* POST /cart/{session_id}/items arrives: await db.products.find_one is issued
add_to_cart_start(r, p, c, q) ==
    /\ TaskFree(r)
    /\ Total + Pending + q <= MaxQty
    /\ task' = [task EXCEPT ![r] =
           [IdleTask EXCEPT !.h = "add_to_cart", !.pc = "product", !.product_id = p,
                            !.selected_color = c, !.quantity = q]]
    /\ UNCHANGED <<cacheVars, carts, users, added>>

\* product = await db.products.find_one(...); 404 when there is none; then
\* await db.carts.find_one is issued
add_to_cart_product(r) ==
    /\ task[r].h = "add_to_cart" /\ task[r].pc = "product"
    /\ task' = [task EXCEPT ![r] =
           IF task[r].product_id \in DOMAIN db
           THEN [task[r] EXCEPT !.pc = "cart"]
           ELSE [task[r] EXCEPT !.pc = "done", !.status = "404"]]
    /\ UNCHANGED <<cacheVars, carts, users, added>>

\* cart = await db.carts.find_one(...): without a cart insert_one is issued;
\* with one, the item is merged into the copy read and update_one is issued
add_to_cart_find(r) ==
    /\ task[r].h = "add_to_cart" /\ task[r].pc = "cart"
    /\ task' = [task EXCEPT ![r] =
           IF carts = <<>>
           THEN [task[r] EXCEPT !.pc = "insert", !.cart = <<>>]
           ELSE [task[r] EXCEPT !.pc = "update",
                     !.cart = Merge(carts[1], task[r].product_id,
                                    task[r].selected_color, task[r].quantity)]]
    /\ UNCHANGED <<cacheVars, carts, users, added>>

\* await db.carts.insert_one(cart.dict()) of the new empty cart; the item is
\* merged into it and update_one is issued
add_to_cart_insert(r) ==
    /\ task[r].h = "add_to_cart" /\ task[r].pc = "insert"
    /\ carts' = Append(carts, <<>>)
    /\ task' = [task EXCEPT ![r] =
           [task[r] EXCEPT !.pc = "update",
                !.cart = Merge(<<>>, task[r].product_id, task[r].selected_color,
                               task[r].quantity)]]
    /\ UNCHANGED <<cacheVars, users, added>>

\* await db.carts.update_one({"session_id": ...}, {"$set": cart.dict()}): the
\* first cart of the session gets the handler's copy; the handler returns
add_to_cart_update(r) ==
    /\ task[r].h = "add_to_cart" /\ task[r].pc = "update"
    /\ carts' = [carts EXCEPT ![1] = task[r].cart]
    /\ task' = [task EXCEPT ![r] = [task[r] EXCEPT !.pc = "done", !.status = "200"]]
    /\ added' = [added EXCEPT ![<<task[r].product_id, task[r].selected_color>>] =
                     @ + task[r].quantity]
    /\ UNCHANGED <<cacheVars, users>>

\* POST /users arrives: await db.users.find_one({"email": ...}) is issued
create_user_start(r, email) ==
    /\ TaskFree(r)
    /\ Len(users) < MaxUsers
    /\ task' = [task EXCEPT ![r] =
           [IdleTask EXCEPT !.h = "create_user", !.pc = "find", !.email = email]]
    /\ UNCHANGED <<cacheVars, carts, users, added>>

\* existing_user = await db.users.find_one(...): 400 when there is one,
\* otherwise insert_one is issued
create_user_find(r) ==
    /\ task[r].h = "create_user" /\ task[r].pc = "find"
    /\ task' = [task EXCEPT ![r] =
           IF \E i \in 1..Len(users) : users[i] = task[r].email
           THEN [task[r] EXCEPT !.pc = "done", !.status = "400"]
           ELSE [task[r] EXCEPT !.pc = "insert"]]
    /\ UNCHANGED <<cacheVars, carts, users, added>>

\* await db.users.insert_one(user.dict()); return user
create_user_insert(r) ==
    /\ task[r].h = "create_user" /\ task[r].pc = "insert"
    /\ users' = Append(users, task[r].email)
    /\ task' = [task EXCEPT ![r] = [task[r] EXCEPT !.pc = "done", !.status = "200"]]
    /\ UNCHANGED <<cacheVars, carts, added>>

\* The server after startup, one product in the store, no cart and no user.
InitShop ==
    /\ BackendInit /\ variant = "simple" /\ serviceUp = FALSE
    /\ MemoInit
    /\ ServerInit /\ OPTIMIZATIONS_AVAILABLE = TRUE
    /\ AuxQuiet

CartNext ==
    \/ \E r \in Reqs, p \in ProductIds, c \in Colors, q \in Quantities :
           add_to_cart_start(r, p, c, q)
    \/ \E r \in Reqs : add_to_cart_product(r)
    \/ \E r \in Reqs : add_to_cart_find(r)
    \/ \E r \in Reqs : add_to_cart_insert(r)
    \/ \E r \in Reqs : add_to_cart_update(r)

SpecCart == InitShop /\ [][CartNext]_vars

UsersNext ==
    \/ \E r \in Reqs, email \in Emails : create_user_start(r, email)
    \/ \E r \in Reqs : create_user_find(r)
    \/ \E r \in Reqs : create_user_insert(r)

SpecUsers == InitShop /\ [][UsersNext]_vars

-----------------------------------------------------------------------------
(* Claims about the backends, checked under Spec *)

\* The entry of k is stored with a ttl > 0.
PositiveTtl(k) == k \in DOMAIN cache /\ cache[k].expires_at > cache[k].created_at

\* C3 (as claimed): in the in-process backend an entry set at t with ttl > 0 is
\* returned by every get before t + ttl, and a get at or after t + ttl, t + ttl
\* itself included, returns absent and removes the entry.
C3_ExpiryAtOrAfter ==
    [][\A k \in Keys :
         (simple_get(k) /\ connected /\ PositiveTtl(k)) =>
             IF now < cache[k].expires_at
             THEN last'.ret = cache[k].data /\ cache' = cache
             ELSE last'.ret = PyNone /\ k \notin DOMAIN cache']_vars

\* C5: in the disabled state of either backend, for every key, value and ttl, get
\* returns absent, set, delete and clear_pattern return failure, the stored
\* entries stay as they are, and the remote backend does not call the service.
C5_DisabledIsNoOp ==
    [][/\ (variant = "simple" /\ ~connected) =>
            /\ \A k \in Keys : simple_get(k) => (last'.ret = PyNone /\ cache' = cache)
            /\ \A k \in Keys, v \in Values, e \in TTLs :
                   simple_set(k, v, e) => (last'.ret = PyFalse /\ cache' = cache)
            /\ \A k \in Keys : simple_delete(k) => (last'.ret = PyFalse /\ cache' = cache)
            /\ \A p \in Patterns :
                   simple_clear_pattern(p) => (last'.ret = PyFalse /\ cache' = cache)
       /\ (variant = "redis" /\ ~redis_connected) =>
            /\ \A k \in Keys :
                   redis_get(k) =>
                       (last'.ret = PyNone /\ service' = service /\ ~last'.net)
            /\ \A k \in Keys, v \in Values, e \in TTLs :
                   redis_set(k, v, e) =>
                       (last'.ret = PyFalse /\ service' = service /\ ~last'.net)
            /\ \A k \in Keys :
                   redis_delete(k) =>
                       (last'.ret = PyFalse /\ service' = service /\ ~last'.net)
            /\ \A p \in Patterns :
                   redis_clear_pattern(p) =>
                       (last'.ret = PyFalse /\ service' = service /\ ~last'.net)]_vars

\* A set was refused by the remote backend after disconnect, while the service
\* was up and held an entry.
C5_Witness ==
    /\ variant = "redis" /\ ~redis_connected /\ redis = "closed"
    /\ last.op = "set" /\ last.ret = PyFalse
    /\ serviceUp /\ DOMAIN service # {}

IsPrefixPattern(p) ==
    /\ Len(p) >= 1
    /\ p[Len(p)] = "*"
    /\ \A i \in 1..(Len(p) - 1) : p[i] # "*"

\* C8: in the in-process backend, clear_pattern(q + "*") with no wildcard in q
\* removes exactly the stored keys that start with q and leaves every other
\* entry as it was; clear_pattern("products:*") removes no "product:" key.
C8_PrefixClearExact ==
    [][\A p \in Patterns :
         (connected /\ IsPrefixPattern(p) /\ last'.key = p /\ simple_clear_pattern(p)) =>
             LET q == SubSeq(p, 1, Len(p) - 1)
             IN  /\ last'.ret = PyTrue
                 /\ DOMAIN cache' = {k \in DOMAIN cache : ~StartsWith(k, q)}
                 /\ \A k \in DOMAIN cache' : cache'[k] = cache[k]]_vars

\* clear_pattern("products:*") ran with both keys stored and left "product:a" only.
C8_Witness ==
    /\ variant = "simple"
    /\ last.op = "clear_pattern" /\ last.key = pProducts /\ last.ret = PyTrue
    /\ hist[kProductsA].kind = "swept" /\ hist[kProductA].kind = "swept"
    /\ DOMAIN cache = {kProductA}

\* The key count get_cache_stats reports for store c at time t.
StatsKeys(c, t) == Simple_get_cache_stats(c, TRUE, t).ret.keys

\* C9 (as claimed): in the in-process backend clear_pattern(p) with no '*' in p
\* removes only the entry whose key is p: the key count of get_cache_stats drops
\* by 1 when p is a live key and by 0 otherwise, and every other key stays.
C9_ExactMatchOnly ==
    [][\A p \in Patterns :
         (simple_clear_pattern(p) /\ connected /\ ~HasStar(p)) =>
             LET live == DOMAIN SimpleCacheManager_cleanup_expired(cache, now)
             IN  /\ StatsKeys(cache', now) =
                        StatsKeys(cache, now) - (IF p \in live THEN 1 ELSE 0)
                 /\ \A k \in (DOMAIN cache) \ {p} :
                        k \in DOMAIN cache' /\ cache'[k] = cache[k]]_vars

\* C10: on the connected in-process backend clear_pattern("*") leaves the store
\* empty, and a key that was stored then stays absent, to get as well, until it
\* is set again.
C10_ClearAll ==
    variant = "simple" =>
        /\ (last.op = "clear_pattern" /\ last.key = pAll /\ last.ret = PyTrue)
               => DOMAIN cache = {}
        /\ \A k \in Keys :
               hist[k].kind = "cleared_all" =>
                   /\ k \notin DOMAIN cache
                   /\ (last.op = "get" /\ last.key = k) => last.ret = PyNone

\* A get ran on a key that clear_pattern("*") had removed.
C10_Witness ==
    /\ variant = "simple" /\ connected
    /\ last.op = "get" /\ hist[last.key].kind = "cleared_all"

\* C11: a disabled backend of either variant stays disabled through every get,
\* set, delete, clear_pattern and stats call, and through the passing of time and
\* the service's failures: connected goes from false to true only in a connect()
\* call.
C11_OnlyConnectEnables ==
    [][/\ (~connected /\ connected') => simple_connect
       /\ (~redis_connected /\ redis_connected') => (redis_connect(TRUE) /\ serviceUp)]_vars

\* Calls were served, the last a stats call, by a remote backend disabled by
\* disconnect while the service was up and held an entry.
C11_Witness ==
    /\ variant = "redis" /\ redis = "closed" /\ ~redis_connected
    /\ serviceUp /\ DOMAIN service # {}
    /\ last.op = "stats" /\ last.ret = PyStr("disconnected")

\* C12: the remote backend's connect() returns without raising; when from_url or
\* the probe fails it leaves connected = false and no handle, and when the probe
\* succeeds it leaves connected = true with the handle open.
C12_ConnectNeverRaises ==
    [][\A url_ok \in BOOLEAN :
         redis_connect(url_ok) =>
             /\ last'.exc = "-"
             /\ IF url_ok /\ serviceUp
                THEN redis_connected' /\ redis' = "open"
                ELSE ~redis_connected' /\ redis' = "None"]_vars

\* A connect() failed on its probe on a backend that had been connected and had
\* stored an entry: it returned, and left the backend disabled without a handle.
C12_Witness ==
    /\ variant = "redis" /\ last.op = "connect" /\ last.net /\ last.exc = "-"
    /\ ~serviceUp /\ ~redis_connected /\ redis = "None"
    /\ DOMAIN service # {}

\* C17 (as claimed): on the connected in-process backend get_cache_stats reports
\* status "connected" and as key count the number of entries with
\* now < expires_at, and leaves no entry in the store that is expired by that
\* test.
C17_StatsCountsLive ==
    [][(simple_get_cache_stats /\ connected) =>
           /\ last'.ret = PyStr("connected")
           /\ last'.n = Cardinality({k \in DOMAIN cache : now < cache[k].expires_at})
           /\ \A k \in DOMAIN cache' : now < cache'[k].expires_at]_vars

\* C18 (as claimed): disconnect() on a connected backend of either variant leaves
\* it disabled, whether closing the remote handle returns or raises.
C18_DisconnectDisables ==
    [][/\ (simple_disconnect /\ connected) => ~connected'
       /\ \A close_ok \in BOOLEAN :
              (redis_disconnect(close_ok) /\ redis_connected) => ~redis_connected']_vars

\* C19 (as claimed): in the in-process backend a get of a key whose entry was
\* stored by set with ttl <= 0 returns absent, at the clock reading of the set
\* as well as later.
C19_NonPositiveTtlAbsent ==
    [][\A k \in Keys :
         (simple_get(k) /\ connected /\ k \in DOMAIN cache
             /\ cache[k].expires_at <= cache[k].created_at)
         => last'.ret = PyNone]_vars

\* C20 (as claimed): every entry in the in-process store has
\* expires_at > created_at, whatever ttl set was called with.
C20_ExpiresAfterCreated ==
    \A k \in DOMAIN cache : cache[k].expires_at > cache[k].created_at

-----------------------------------------------------------------------------
(* Claims about _generate_key, checked under SpecKey *)

\* C14: for any prefix and any two keyword-parameter dicts that hold the same
\* pairs in different construction order, nested dicts included, _generate_key
\* returns the same key.
C14_OrderIndependent ==
    derive.pc = "out" => derive.k11 = derive.k12

\* The two dicts list their keys in the same order and differ in the order of a
\* nested dict only.
C14_Witness ==
    /\ derive.pc = "out"
    /\ Len(derive.p1.items) = 2
    /\ derive.p1.items[1].k = derive.p2.items[1].k
    /\ derive.p1.items[1].v.t = "dict"
    /\ Len(derive.p1.items[1].v.items) = 2
    /\ derive.p1.items[1].v.items[1].k # derive.p2.items[1].v.items[1].k
    /\ derive.k11 = derive.k12

IsHexDigit(ch) == \E i \in 1..Len(HexChars) : HexChars[i] = ch

\* C15: the key is the namespace, ':' and a digest of HexDigits hex digits, and
\* for one parameter set the keys of two different namespaces differ.
C15_NamespacesSeparate ==
    derive.pc = "out" =>
        /\ Len(derive.k11) = Len(derive.n1) + 1 + HexDigits
        /\ SubSeq(derive.k11, 1, Len(derive.n1)) = derive.n1
        /\ derive.k11[Len(derive.n1) + 1] = ":"
        /\ \A i \in (Len(derive.n1) + 2)..Len(derive.k11) : IsHexDigit(derive.k11[i])
        /\ (derive.n1 # derive.n2 => derive.k11 # derive.k21)

\* Keys were derived for "products" and "product" from one non-empty parameter set.
C15_Witness ==
    /\ derive.pc = "out"
    /\ derive.n1 = pfxProducts /\ derive.n2 = pfxProduct
    /\ derive.p1.items # <<>>
    /\ derive.k11 # derive.k21

-----------------------------------------------------------------------------
(* Claims about the two backends together, checked under SpecPair *)

\* C16 (as claimed): for every sequence of connect, set, get, delete and
\* clear_pattern calls with JSON values and ttl > 0, made on both backends at
\* the same times, each call returns the same from the in-process backend as
\* from the remote backend over a service that answers.
C16_Interchangeable ==
    pair.simple = pair.remote

-----------------------------------------------------------------------------
(* Claims about get among the other handlers, checked under SpecAtomic *)

\* C22: between the presence check of get(k) and its return no other handler's
\* set, delete, clear_pattern, stats sweep, connect or disconnect changes the
\* store; get meets no missing key, and returns what one atomic get on the store
\* as it is at the return would: never an entry another handler has removed.
C22_GetAtomic ==
    [][/\ (loop.pc \in {"check", "load", "expiry"})
              => (cache' = cache /\ connected' = connected) \/ get_return
       /\ get_return =>
              /\ loop'.exc = "-"
              /\ loop'.ret = SimpleCacheManager_get(cache, connected, loop.time,
                                                    loop.key).ret
              /\ cache' = SimpleCacheManager_get(cache, connected, loop.time,
                                                 loop.key).cache]_vars

\* A get evicted an expired entry and returned absent after other handlers had
\* set and deleted keys.
C22_Witness ==
    /\ loop.pc = "done" /\ loop.exc = "-" /\ loop.ret = PyNone
    /\ loop.entry.data = PyStr("v1") /\ loop.time > loop.entry.expires_at
    /\ loop.key \notin DOMAIN cache
    /\ \E k \in Keys : hist[k].kind = "removed"

-----------------------------------------------------------------------------
(* Claims about the awaits on the service, checked under SpecFlight *)

\* C23: every remote connect, get, set, delete and clear_pattern that has sent
\* its request eventually returns to its caller, also when the service never
\* replies.
C23_EventuallyReturns == (flight # NoFlight) ~> (flight = NoFlight)

-----------------------------------------------------------------------------
(* Claims about transport and decoding errors of the remote backend *)

\* The enabled remote backend's call reaches a service that is down: the
\* client raises ConnectionError inside the method's try block.
TransportFails == variant = "redis" /\ redis_connected /\ redis = "open" /\ ~serviceUp

\* C24: a transport error raised during a remote get, set, delete or
\* clear_pattern is caught inside the method: the call returns absent (get) or
\* failure (the others), no exception leaves it, and the connected flag, the
\* handle and the service's keys are as before the call.
C24_TransportErrorContained ==
    [][(/\ TransportFails
        /\ last'.net
        /\ \/ \E k \in Keys : redis_get(k) \/ redis_delete(k)
           \/ \E k \in Keys, v \in Values, e \in TTLs : redis_set(k, v, e)
           \/ \E p \in Patterns : redis_clear_pattern(p))
       => /\ last'.ret = Refused(last'.op)
          /\ last'.exc = "-"
          /\ redis_connected' = redis_connected
          /\ redis' = redis
          /\ service' = service]_vars

\* A delete reached the service while it was down and returned failure; the
\* backend is still connected with its handle.
C24_Witness ==
    /\ TransportFails
    /\ last.op = "delete" /\ last.net /\ last.ret = PyFalse /\ last.exc = "-"

\* The service holds under k a live text that json.loads rejects.
Undecodable(k) ==
    /\ k \in Live(service, now)
    /\ service[k].val # ""
    /\ ~Loads(service[k].val).ok

\* C30: a remote get of a key whose stored text cannot be deserialized returns
\* absent, raises nothing, and leaves the connected flag and the handle as they
\* were.
C30_UndecodableIsAbsent ==
    [][\A k \in Keys :
         (/\ variant = "redis" /\ redis_connected /\ redis = "open" /\ serviceUp
          /\ Undecodable(k)
          /\ redis_get(k))
         => /\ last'.ret = PyNone
            /\ last'.exc = "-"
            /\ last'.net
            /\ redis_connected' = redis_connected
            /\ redis' = redis]_vars

\* A get read an undecodable text from the answering service and returned absent.
C30_Witness ==
    /\ variant = "redis" /\ redis_connected /\ redis = "open" /\ serviceUp
    /\ last.op = "get" /\ last.net /\ last.ret = PyNone /\ last.exc = "-"
    /\ Undecodable(last.key)

-----------------------------------------------------------------------------
(* Claims about wildcards before the end of a pattern, checked under SpecGlob *)

\* C25: for a pattern with '*' elsewhere than only at its end, clear_pattern of
\* the in-process backend removes exactly the stored keys that the pattern
\* matches as a glob over the whole key, and leaves every other key as it was.
C25_GlobClearExact ==
    [][\A p \in GlobPatterns :
         (connected /\ last'.key = p /\ simple_clear_pattern(p)) =>
             /\ DOMAIN cache' = {k \in DOMAIN cache : ~GlobMatch(p, k)}
             /\ \A k \in DOMAIN cache' : cache'[k] = cache[k]]_vars

-----------------------------------------------------------------------------
(* Claims about user keys, checked under SpecUser *)

\* C26: invalidate_user_cache(u) removes every stored key of user u and no
\* stored key of another user, whatever characters the identifiers hold.
C26_UserScoped ==
    [][\A u \in UserIds :
         invalidate_user_cache(u) =>
             /\ \A sfx \in Suffixes : user_key(u, sfx) \notin Stored'
             /\ \A o \in UserIds \ {u}, sfx \in Suffixes :
                    user_key(o, sfx) \in Stored => user_key(o, sfx) \in Stored']_vars

-----------------------------------------------------------------------------
(* Claims about the key of get_products, checked under SpecQuery *)

\* C27: two get_products requests whose filter parameters differ use
\* different cache keys.
C27_DistinctQueriesDistinctKeys ==
    (derive.pc = "out" /\ derive.q1 # derive.q2) => derive.k1 # derive.k2

-----------------------------------------------------------------------------
(* Claims about connect, delete and the frame of the in-process backend, checked under Spec *)

\* C31: the in-process connect always succeeds and resets the store: after it
\* returns the backend is connected, the store is empty, and a get of any key
\* set before the connect (on the fresh manager or later) returns absent.
C31_ConnectResets ==
    [][(last'.op = "connect" /\ simple_connect)
       => /\ connected'
          /\ last'.exc = "-"
          /\ cache' = <<>>
          /\ \A k \in Keys :
                 SimpleCacheManager_get(cache', connected', now', k).ret = PyNone]_vars

\* connect returned on the in-process backend, which is connected and empty.
C31_Witness ==
    /\ variant = "simple" /\ last.op = "connect" /\ last.exc = "-"
    /\ connected /\ cache = <<>>
    /\ \A k \in Keys : hist[k].kind = "removed"

\* C33: on a connected in-process backend delete(k) returns success whether or
\* not k is stored, a get of k is absent afterwards, and every other entry is
\* as it was.
C33_DeleteFrame ==
    [][\A k \in Keys :
         (connected /\ last'.key = k /\ simple_delete(k))
         => /\ last'.ret = PyTrue
            /\ SimpleCacheManager_get(cache', connected', now', k).ret = PyNone
            /\ DOMAIN cache' = (DOMAIN cache) \ {k}
            /\ \A o \in DOMAIN cache' : cache'[o] = cache[o]]_vars

\* delete returned success for a key, which is absent, and the other key is
\* still stored.
C33_Witness ==
    /\ variant = "simple" /\ connected
    /\ last.op = "delete" /\ last.ret = PyTrue
    /\ last.key \notin DOMAIN cache
    /\ \E o \in Keys \ {last.key} : o \in DOMAIN cache

\* C34: whenever the in-process backend is not connected its store is empty.
C34_DisabledIsEmpty == (variant = "simple" /\ ~connected) => cache = <<>>

\* A set was refused on the disconnected in-process backend, whose store is empty.
C34_Witness ==
    /\ variant = "simple" /\ ~connected /\ cache = <<>>
    /\ last.op = "set" /\ last.ret = PyFalse

\* The step is one the claim excepts for key k: a set or delete of k, a
\* clear_pattern whose glob matches k, a connect or a disconnect.
Touches(k) ==
    \/ simple_connect
    \/ simple_disconnect
    \/ simple_delete(k)
    \/ \E v \in Values, e \in TTLs : simple_set(k, v, e)
    \/ \E p \in Patterns : GlobMatch(p, k) /\ simple_clear_pattern(p)

\* C32: an entry of the in-process backend that has not expired keeps its place
\* and its value across every operation other than a set or delete of its key,
\* a clear_pattern whose glob matches its key, a connect or a disconnect.
C32_EntryFrame ==
    [][\A k \in Keys :
         (/\ variant = "simple"
          /\ k \in DOMAIN cache
          /\ k \notin DOMAIN cache' \/ cache'[k] # cache[k]
          /\ ~(now' > cache[k].expires_at))
         => Touches(k)]_vars

-----------------------------------------------------------------------------
(* Claims about concurrent requests on the document store *)

\* C35: once every add_to_cart request of the session has completed, the stored
\* cart holds, for each product and colour added, one item whose quantity is the
\* sum of the quantities of the completed additions.
C35_NoLostAddition ==
    (\A r \in Reqs : TaskFree(r))
    => \A x \in ProductIds \X Colors :
           added[x] > 0 =>
               /\ carts # <<>>
               /\ Cardinality(Matching(carts[1], x[1], x[2])) = 1
               /\ \A i \in Matching(carts[1], x[1], x[2]) :
                      carts[1][i].quantity = added[x]

\* C36: db.users never holds two documents with the same email.
C36_UniqueEmail ==
    \A i, j \in 1..Len(users) : users[i] = users[j] => i = j

-----------------------------------------------------------------------------
(* Claims about the wrapper, checked under SpecMemo *)

\* C6 (as claimed): on a connected backend, a call of the wrapped operation that
\* repeats the previous call's arguments inside its ttl window, with no
\* invalidation in between, returns the same value without running the
\* operation again, whatever value the operation returned.
C6_SecondCallIsHit ==
    \A c \in Callers :
        (memo[c].pc = "done" /\ memo[c].expect # NoValue)
        => (~memo[c].executed /\ memo[c].ret = memo[c].expect)

\* The same for an operation that returned a value other than None: the repeat
\* is served from the cache.
C6_HitForNonNone ==
    /\ \E c \in Callers :
        /\ memo[c].pc = "done" /\ memo[c].expect \notin {NoValue, PyNone}
        /\ ~memo[c].executed /\ memo[c].ret = memo[c].expect

\* C13: a wrapper call that ran the operation and whose cache_manager.set
\* returned False (backend disabled, service not answering, result that cannot
\* be serialized) returns the operation's result to its caller.
C13_SetFailureNonFatal ==
    \A c \in Callers :
        (memo[c].pc = "done" /\ memo[c].executed /\ memo[c].stored = PyFalse)
        => memo[c].ret = memo[c].result

\* The operation returned a value json.dumps cannot serialize, the set on the
\* connected remote backend failed, and the caller got the value.
C13_Witness ==
    \E c \in Callers :
        /\ variant = "redis" /\ redis_connected /\ serviceUp
        /\ memo[c].pc = "done" /\ memo[c].executed
        /\ memo[c].result = PyCyclic /\ memo[c].stored = PyFalse
        /\ memo[c].ret = PyCyclic

\* The backend in use is disabled: every method takes its early return.
Disabled ==
    IF variant = "simple" THEN ~connected ELSE ~redis_connected \/ redis = "None"

\* C29: with the backend disabled the wrapper is a pass-through: every call
\* misses and goes on to run the operation, returns the operation's result after
\* one execution, its set reports failure, and no entry is stored.
C29_DisabledPassThrough ==
    [][\A c \in Callers :
         /\ (Disabled /\ \E a \in Args : MemoCall(c, a))
                => /\ memo'[c].pc = "exec" /\ ~memo'[c].executed
                   /\ cache' = cache /\ service' = service
         /\ (Disabled /\ MemoStore(c))
                => /\ memo[c].executed
                   /\ memo'[c].pc = "done"
                   /\ memo'[c].ret = memo[c].result
                   /\ memo'[c].stored = PyFalse
                   /\ cache' = cache /\ service' = service]_vars

\* A call on the disconnected in-process backend ran the operation, got failure
\* from set, returned the result, and the store is empty.
C29_Witness ==
    \E c \in Callers :
        /\ variant = "simple" /\ Disabled
        /\ memo[c].pc = "done" /\ memo[c].executed
        /\ memo[c].result = PyStr("v1") /\ memo[c].ret = PyStr("v1")
        /\ memo[c].stored = PyFalse
        /\ cache = <<>>

\* What cache_manager.get(k) would return now.
Held(k) == BackendGet(k).ret

\* C21: the wrapper has no single-flight: a call that missed while another call
\* with the same arguments was in flight runs the operation and calls set, as the
\* other one does, and when the second of the two sets is stored the cache holds
\* its value, whatever the first one wrote.
C21_NoSingleFlight ==
    [][\A c \in Callers :
         /\ (memo'[c].raced /\ memo'[c].pc = "done")
                => (memo'[c].executed /\ memo'[c].stored # PyNone)
         /\ \A o \in Callers \ {c} :
                (MemoStore(c) /\ memo[c].raced /\ memo'[c].stored = PyTrue
                    /\ memo[o].raced /\ memo[o].pc = "done")
                => Held(generate_key(pfxProducts, memo[c].arg))' = memo[c].result]_vars

\* Two calls raced on a miss, both ran the operation and stored their results,
\* v1 and v2, and the cache holds one of them.
C21_Witness ==
    /\ \A c \in Callers :
           /\ memo[c].pc = "done" /\ memo[c].raced /\ memo[c].executed
           /\ memo[c].stored = PyTrue
    /\ memo["c1"].result = PyStr("v1") /\ memo["c2"].result = PyStr("v2")
    /\ Held(generate_key(pfxProducts, "a1")) \in {PyStr("v1"), PyStr("v2")}

-----------------------------------------------------------------------------
(* Claims about the request handlers, checked under SpecServer *)

WriteHandlers == {"create_product", "update_product", "delete_product"}

\* C1 (as claimed): a write handler that changed a product in db.products has
\* called invalidate_product_cache after the change when it returns.
C1_WritesInvalidate ==
    \A r \in Reqs :
        (OPTIMIZATIONS_AVAILABLE /\ req[r].pc = "done" /\ req[r].status = "200"
            /\ req[r].h \in WriteHandlers /\ req[r].mutated)
        => req[r].invalidated

\* C2 (as claimed): a get_products request that begins after create_product has
\* inserted a product and finished invalidate_product_cache returns a list that
\* holds the product (unless it was deleted since).
C2_NoStaleListAfterCreate ==
    \A r \in Reqs :
        (req[r].h = "get_products" /\ req[r].pc = "done" /\ req[r].status = "200")
        => \A id \in req[r].mustSee :
               life[id] = "created" => id \in DOMAIN req[r].res.items

CacheUnavailable == ~OPTIMIZATIONS_AVAILABLE \/ ~connected

\* C4 (as claimed): with the cache unavailable, get_products, get_product,
\* create_product, the cache-stats endpoint and the health check complete
\* without an error caused by the cache.
C4_DegradeToStore ==
    \A r \in Reqs :
        (CacheUnavailable /\ req[r].pc = "done"
            /\ req[r].h \in {"get_products", "get_product", "create_product",
                             "get_cache_performance", "health_check"})
        => req[r].status # "500"

\* The server's backend holds an unexpired entry under k.
LiveEntry(k) ==
    /\ OPTIMIZATIONS_AVAILABLE /\ connected
    /\ k \in DOMAIN cache
    /\ ~(now > cache[k].expires_at)

\* C28: when the backend holds a live entry under the request's cache key,
\* get_products and get_product return the cached value without querying the
\* document store, whatever the cached value is (an empty list included).
C28_HitReturnsCached ==
    [][\A r \in Reqs :
         /\ (LiveEntry(products_cache_key) /\ get_products_start(r))
                => /\ req'[r].pc = "done"
                   /\ req'[r].res = cache[products_cache_key].data
         /\ \A id \in ProductIds :
                (LiveEntry(product_cache_key(id)) /\ get_product_start(r, id))
                => /\ req'[r].pc = "done"
                   /\ req'[r].res = cache[product_cache_key(id)].data]_vars

====
